---- MODULE Spec2Model ----
(***************************************************************************)
(* Storage/schema layer of inx-api-core-v0: the v2 -> v3 migration of the  *)
(* tangle store, the memoized singletons of the Database object and the    *)
(* capped prefix scans over the bundle-transactions realm.                 *)
(***************************************************************************)
EXTENDS Integers, Sequences, FiniteSets, TLC

VARIABLES
    tangle,      \* the tangle key-value store: key bytes (realm prefix first) -> value
    version,     \* schema version byte kept by the store's health tracker
    phase,       \* position of New on the tangle store
    iter,        \* keys the running metadataStore.Iterate has still to visit
    cache,       \* milestoneCache of the running pass, most recently used first
    innerErr,    \* innerErr of the running pass
    ctxDone,     \* the context handed to New has been cancelled
    starts,      \* number of times New has been called on this store
    orig,        \* the store as it was before the first New (history)
    passes,      \* number of passes that ran to the end without error (history)
    rerun,       \* store at the start of a pass run over migrated records (history)
    observed,    \* the running pass has seen the context cancelled (history)
    faulted,     \* a key-value operation of the running pass has failed (history)
    gate,        \* New's loop over the three databases: modes, versions, position
    db,          \* the memoized fields of the Database object
    once,        \* the sync.Once of each memoized field: done flag and mutex holder
    idle,        \* the callers that have not called the query facade yet
    stack,       \* call stack of each caller of the query facade
    panicking,   \* the callers that are unwinding a panic
    ret,         \* value returned by the last call each caller finished
    returned,    \* <<operation, value>> of the calls that returned (history)
    ledgerReads, \* number of reads of the ledger-state realm
    scan         \* the prefix scan of the query facade that ran last

migVars == <<version, phase, iter, cache, innerErr, ctxDone, starts, orig, passes,
             rerun, observed, faulted, gate>>
facadeVars == <<stack, panicking, once, idle, db, ret, returned, ledgerReads, scan>>
vars == <<tangle, migVars, facadeVars>>

----------------------------------------------------------------------------
\* Bounds of the model.
NumTx == 3          \* transactions (and metadata records) in the store
MaxStarts == 2      \* startups (calls of New) followed
MaxFind == 2        \* largest limit handed to a prefix scan
NumCallers == 2     \* concurrent callers of the query facade
MaxCapacity == 2    \* largest capacity the milestone cache is given

\* Program constants.
DBVersion == 3
HashSize == 49
IndexByteSize == 4
StorePrefixTransactions == 1
StorePrefixTransactionMetadata == 2
StorePrefixBundleTransactions == 3
StorePrefixBundles == 4
StorePrefixMilestones == 6
StorePrefixLedgerState == 7
BundleTxIsTail == 1
MilestoneCacheSize == 10000000
TransactionMetadataSolid == 0
TransactionMetadataConfirmed == 1
TransactionMetadataConflicting == 2
TransactionMetadataIsHead == 3
TransactionMetadataIsTail == 4
TransactionMetadataIsValue == 5
TransactionMetadataIsMilestone == 6
TransactionMetadataSize == 1 + IndexByteSize + HashSize + HashSize + HashSize + IndexByteSize

----------------------------------------------------------------------------
\* Bytes.

Pow2(n) == IF n = 0 THEN 1 ELSE IF n = 1 THEN 2 ELSE IF n = 2 THEN 4
           ELSE IF n = 3 THEN 8 ELSE IF n = 4 THEN 16 ELSE IF n = 5 THEN 32
           ELSE IF n = 6 THEN 64 ELSE 128

Pow256(k) == IF k = 0 THEN 1 ELSE IF k = 1 THEN 256 ELSE IF k = 2 THEN 65536
             ELSE 16777216

\* bitmask.BitMask.HasBit / ModifyBit on one byte.
HasBit(mask, bit) == (mask \div Pow2(bit)) % 2 = 1
ModifyBit(mask, bit, on) ==
    IF on THEN (IF HasBit(mask, bit) THEN mask ELSE mask + Pow2(bit))
    ELSE (IF HasBit(mask, bit) THEN mask - Pow2(bit) ELSE mask)

\* binary.LittleEndian.PutUint32 / Uint32.
PutUint32(v) == <<v % 256, (v \div 256) % 256, (v \div 65536) % 256,
                  (v \div 16777216) % 256>>
Uint32(b) == b[1] + 256 * b[2] + 65536 * b[3] + 16777216 * b[4]

\* data[from:] and data[from:to] of Go, offsets counted from 0.
SliceFrom(data, from) == SubSeq(data, from + 1, Len(data))
Slice(data, from, to) == SubSeq(data, from + 1, to)

HasPrefix(key, prefix) ==
    /\ Len(key) >= Len(prefix)
    /\ SubSeq(key, 1, Len(prefix)) = prefix

RECURSIVE LexLessFrom(_, _, _)
LexLessFrom(a, b, k) ==
    IF k > Len(a) THEN k <= Len(b)
    ELSE IF k > Len(b) THEN FALSE
    ELSE IF a[k] # b[k] THEN a[k] < b[k]
    ELSE LexLessFrom(a, b, k + 1)
LexLess(a, b) == LexLessFrom(a, b, 1)

\* The keys of a set in the byte order the store iterates them in.
RECURSIVE SortKeys(_)
SortKeys(S) ==
    IF S = {} THEN <<>>
    ELSE LET m == CHOOSE x \in S : \A y \in S \ {x} : LexLess(x, y)
         IN <<m>> \o SortKeys(S \ {m})

----------------------------------------------------------------------------
\* The ordered key-value store and its realms.

\* KVStore.WithRealm(realm).Get(key): <<found, value>>.
Has(store, realm, key) == (<<realm>> \o key) \in DOMAIN store
Get(store, realm, key) == store[<<realm>> \o key]

\* KVStore.WithRealm(realm).Set(key, value).
Set(store, realm, key, value) ==
    LET k == <<realm>> \o key
    IN [x \in DOMAIN store \cup {k} |-> IF x = k THEN value ELSE store[x]]

\* The keys of a realm, without the realm byte.
RealmKeys(store, realm) == {Tail(k) : k \in {x \in DOMAIN store : x[1] = realm}}

\* KVStore.WithRealm(realm).IterateKeys(prefix, ...): the keys visited, in order.
IterateKeys(store, realm, prefix) ==
    SortKeys({k \in RealmKeys(store, realm) : HasPrefix(k, prefix)})

\* The part of a store that lies in one realm.
Realm(store, realm) ==
    [k \in {x \in DOMAIN store : x[1] = realm} |-> store[k]]

----------------------------------------------------------------------------
\* Hashes and records.

\* A 49-byte hash; the hashes of the model differ in every byte.
HashOf(n) == [k \in 1..HashSize |-> n]
TxIds == 1..NumTx
BundleIds == 1..2
TxHash(i) == HashOf(i)
BundleHash(b) == HashOf(10 + b)

\* The transaction payload type: head/tail/value predicates and accessors.
TxIsTail(tx) == tx.currentIndex = 0
TxIsHead(tx) == tx.currentIndex = tx.lastIndex
TxIsValue(tx) == tx.value # 0

\* Bundle.IsMilestone of a stored bundle record.
BundleIsMilestone(bundle) == bundle.milestone

\* Key of the bundle-transactions realm: bundleHash(49) isTail(1) txHash(49).
BundleTxKey(bundleHash, isTail, txHash) ==
    bundleHash \o <<IF isTail THEN BundleTxIsTail ELSE 0>> \o txHash

databaseKeyPrefixOfTails(bundleHash) == Append(bundleHash, BundleTxIsTail)
databaseKeyPrefixForBundleHash(bundleHash) == bundleHash
databaseKeyForBundle(tailTxHash) == tailTxHash
databaseKeyForMilestoneIndex(milestoneIndex) == PutUint32(milestoneIndex)

\* The record of the old layout (version 2).
LegacyRecord(mask, confirmationIndex, trunk, branch, bundle) ==
    <<mask>> \o PutUint32(0) \o PutUint32(confirmationIndex) \o PutUint32(0)
        \o PutUint32(0) \o PutUint32(0) \o trunk \o branch \o bundle

\* copy(dst, src) into a zeroed destination of n bytes: the first n bytes of
\* src, the rest stays zero.
copy(n, src) == [k \in 1..n |-> IF k <= Len(src) THEN src[k] ELSE 0]

\* Marshal that writes the two indices at each other's place.
MarshalIndexesSwapped(m) ==
    <<m.metadata>> \o PutUint32(m.milestoneIndex) \o copy(HashSize, m.trunkHash)
        \o copy(HashSize, m.branchHash) \o copy(HashSize, m.bundleHash)
        \o PutUint32(m.confirmationIndex)

\* TransactionMetadata.Marshal.
Marshal(m) ==
    <<m.metadata>> \o PutUint32(m.confirmationIndex) \o copy(HashSize, m.trunkHash)
        \o copy(HashSize, m.branchHash) \o copy(HashSize, m.bundleHash)
        \o PutUint32(m.milestoneIndex)

\* TransactionMetadata.Unmarshal (current layout).
Unmarshal(data) ==
    [metadata |-> data[1],
     confirmationIndex |-> Uint32(Slice(data, 1, 1 + IndexByteSize)),
     trunkHash |-> Slice(data, 1 + IndexByteSize, 1 + IndexByteSize + HashSize),
     branchHash |-> Slice(data, 1 + IndexByteSize + HashSize,
                          1 + IndexByteSize + 2 * HashSize),
     bundleHash |-> Slice(data, 1 + IndexByteSize + 2 * HashSize,
                          1 + IndexByteSize + 3 * HashSize),
     milestoneIndex |-> Uint32(SliceFrom(data, 1 + IndexByteSize + 3 * HashSize))]

----------------------------------------------------------------------------
\* The stores New can find on disk: a complete version-2 tangle store.

Tails == {i \in TxIds : i % 2 = 1}

\* Payload of transaction i: odd transactions are tails, 2 is a head, 3 is both.
Payload(i, bundleOf, tagged) ==
    [trunk |-> TxHash((i % NumTx) + 1),
     branch |-> TxHash(((i + 1) % NumTx) + 1),
     bundle |-> BundleHash(bundleOf[i]),
     value |-> IF i = 1 THEN 0 ELSE 10 * i,
     obsoleteTag |-> IF i \in tagged THEN 6 + i ELSE 0,
     timestamp |-> 1000 + i,
     currentIndex |-> IF i % 2 = 1 THEN 0 ELSE 1,
     lastIndex |-> IF i = 3 THEN 0 ELSE IF i = 4 THEN 2 ELSE 1]

LegacyMask(i, nConf) ==
    Pow2(TransactionMetadataSolid)
        + (IF i <= nConf THEN Pow2(TransactionMetadataConfirmed) ELSE 0)
        + (IF i = 3 THEN Pow2(TransactionMetadataConflicting) ELSE 0)

LegacyConfirmationIndex(i, nConf) == IF i <= nConf THEN 4 + i ELSE 0

\* Key of the ledger milestone index in the ledger-state realm.
ledgerMilestoneIndexKey == <<108, 109, 105>>

StoreEntries(bundleOf, tagged, noBundle, nConf, missing, ledger) ==
    LET tx(i) == Payload(i, bundleOf, tagged)
    IN    {<<<<StorePrefixTransactions>> \o TxHash(i), tx(i)>> : i \in TxIds \ {missing}}
     \cup {<<<<StorePrefixTransactionMetadata>> \o TxHash(i),
             LegacyRecord(LegacyMask(i, nConf), LegacyConfirmationIndex(i, nConf),
                          tx(i).trunk, tx(i).branch, tx(i).bundle)>> : i \in TxIds}
     \cup {<<<<StorePrefixBundleTransactions>>
               \o BundleTxKey(tx(i).bundle, TxIsTail(tx(i)), TxHash(i)), <<>>>> :
             i \in TxIds}
     \cup {<<<<StorePrefixBundles>> \o databaseKeyForBundle(TxHash(i)),
             [hash |-> tx(i).bundle, tailTx |-> TxHash(i),
              milestone |-> tx(i).obsoleteTag # 0]>> : i \in Tails \ {noBundle}}
     \cup {<<<<StorePrefixMilestones>> \o databaseKeyForMilestoneIndex(6 + i),
             TxHash(i)>> : i \in tagged \cap Tails}
     \cup {<<<<StorePrefixLedgerState>> \o ledgerMilestoneIndexKey, PutUint32(n)>> :
             n \in {ledger} \ {0}}

StoreOf(entries) ==
    [k \in {e[1] : e \in entries} |-> (CHOOSE e \in entries : e[1] = k)[2]]

InitialStores ==
    {StoreOf(StoreEntries(bundleOf, tagged, noBundle, nConf, missing, 7)) :
        bundleOf \in {f \in [TxIds -> BundleIds] : f[1] = 1}, tagged \in SUBSET Tails,
        noBundle \in {0} \cup Tails, nConf \in {2}, missing \in {0, 2, 3}}

----------------------------------------------------------------------------
\* The milestone cache of the pass (lru.Cache), most recently used entry first.

CacheHas(c, key) == \E n \in 1..Len(c) : c[n].key = key
CacheValueOfNewest(c, key) == c[1].value
CacheValue(c, key) == (CHOOSE e \in {c[n] : n \in 1..Len(c)} : e.key = key).value
CacheDrop(c, key) == SelectSeq(c, LAMBDA e : e.key # key)

\* lru.Cache.Get on a hit: the entry becomes the most recently used.
CacheTouch(c, key) == <<[key |-> key, value |-> CacheValue(c, key)]>> \o CacheDrop(c, key)

CacheAddsZero(c, key, value) == <<[key |-> key, value |-> 0]>> \o CacheDrop(c, key)

\* lru.Cache.Add: the least recently used entry is evicted beyond the capacity.
CacheAdd(c, key, value) ==
    LET added == <<[key |-> key, value |-> value]>> \o CacheDrop(c, key)
    IN IF Len(added) > MilestoneCacheSize THEN SubSeq(added, 1, MilestoneCacheSize)
       ELSE added

----------------------------------------------------------------------------
\* migrateTangleDatabaseFunc.

supportedDatabaseVersionUpgradeFunc(oldVersion, newVersion) ==
    IF ~(oldVersion = 2 /\ newVersion = 3) THEN "unsupported" ELSE "nil"

\* The key-value operations of the pass that can fail with an engine error; the
\* factory that parses what a Get returned fails on the same branch as the Get.
Faults == {"txGet", "bundleGet", "tailGet", "iterateKeys", "set", "iterate"}

getBundleMilestoneIndexFromTimestamp(store, bundle, fault) ==
    IF ~Has(store, StorePrefixTransactions, bundle.tailTx)
    THEN [index |-> 0, err |-> "tailNotPersisted"]
    ELSE [index |-> Get(store, StorePrefixTransactions, bundle.tailTx).timestamp,
          err |-> "nil"]

\* getBundleMilestoneIndex: <<index, error>>.
getBundleMilestoneIndex(store, bundle, fault) ==
    IF Len(bundle.tailTx) = 0 THEN [index |-> 0, err |-> "emptyTail"]
    ELSE IF fault = "tailGet" THEN [index |-> 0, err |-> "tailGetFailed"]
    ELSE IF ~Has(store, StorePrefixTransactions, bundle.tailTx)
    THEN [index |-> 0, err |-> "tailNotPersisted"]
    ELSE [index |-> Get(store, StorePrefixTransactions, bundle.tailTx).obsoleteTag,
          err |-> "nil"]

ScanTailsFirstTailOnly(store, keys, n, abortAt, fault) ==
    LET bundleKey == databaseKeyForBundle(Slice(keys[n], 50, 99))
        milestone == /\ n <= Len(keys)
                     /\ Has(store, StorePrefixBundles, bundleKey)
                     /\ Get(store, StorePrefixBundles, bundleKey).milestone
                     /\ Has(store, StorePrefixTransactions, bundleKey)
    IN [index |-> IF milestone
                  THEN Get(store, StorePrefixTransactions,
                           Get(store, StorePrefixBundles, bundleKey).tailTx).obsoleteTag
                  ELSE 0,
        err |-> "nil", stop |-> FALSE, saw |-> FALSE]

RECURSIVE ScanTailsStopsAtMissingBundle(_, _, _, _, _)
ScanTailsStopsAtMissingBundle(store, keys, n, abortAt, fault) ==
    LET end(index, err, saw) ==
            [index |-> index, err |-> err, stop |-> FALSE, saw |-> saw]
    IN IF n > Len(keys) THEN end(0, "nil", FALSE)
       ELSE IF n = abortAt THEN end(0, "aborted", TRUE)
       ELSE LET bundleKey == databaseKeyForBundle(Slice(keys[n], 50, 99))
            IN IF ~Has(store, StorePrefixBundles, bundleKey)
               THEN end(0, "nil", FALSE)
               ELSE LET bundle == Get(store, StorePrefixBundles, bundleKey)
                    IN IF BundleIsMilestone(bundle)
                       THEN LET ms == getBundleMilestoneIndex(store, bundle, fault)
                            IN IF ms.err # "nil" THEN end(0, ms.err, FALSE)
                               ELSE end(ms.index, "nil", FALSE)
                       ELSE ScanTailsStopsAtMissingBundle(store, keys, n + 1, abortAt,
                                                          fault)

\* bundleTransactionsStore.IterateKeys over the tail keys of one bundle hash,
\* its callback applied to the keys from position n on. abortAt is the position
\* at which the status interval has elapsed with the context cancelled (0: at
\* none). The result: milestoneIndex, the error the scan assigned to innerErr
\* ("nil": it assigned none), and whether the outer callback returns false
\* after it (stop).
RECURSIVE ScanTails(_, _, _, _, _)
ScanTails(store, keys, n, abortAt, fault) ==
    LET end(index, err, saw) ==
            [index |-> index, err |-> err, stop |-> FALSE, saw |-> saw]
    IN IF fault = "iterateKeys"
       THEN [index |-> 0, err |-> "iterateKeysFailed", stop |-> TRUE, saw |-> FALSE]
       ELSE IF n > Len(keys) THEN end(0, "nil", FALSE)
       ELSE IF n = abortAt THEN end(0, "aborted", TRUE)
       ELSE IF fault = "bundleGet" THEN end(0, "bundleGetFailed", FALSE)
       ELSE LET bundleKey == databaseKeyForBundle(Slice(keys[n], 50, 99))
            IN IF ~Has(store, StorePrefixBundles, bundleKey)
               THEN ScanTails(store, keys, n + 1, abortAt, fault)
               ELSE LET bundle == Get(store, StorePrefixBundles, bundleKey)
                    IN IF BundleIsMilestone(bundle)
                       THEN LET ms == getBundleMilestoneIndex(store, bundle, fault)
                            IN IF ms.err # "nil" THEN end(0, ms.err, FALSE)
                               ELSE end(ms.index, "nil", FALSE)
                       ELSE ScanTails(store, keys, n + 1, abortAt, fault)

TailKeys(store, bundleHash) ==
    IterateKeys(store, StorePrefixBundleTransactions,
                Append(databaseKeyPrefixForBundleHash(bundleHash), BundleTxIsTail))

NewMetadataSwapsHeadTail(data, tx, milestoneIndex) ==
    [metadata |->
        ModifyBit(ModifyBit(ModifyBit(ModifyBit(data[1],
            TransactionMetadataIsHead, TxIsTail(tx)),
            TransactionMetadataIsTail, TxIsHead(tx)),
            TransactionMetadataIsValue, TxIsValue(tx)),
            TransactionMetadataIsMilestone, milestoneIndex # 0),
     confirmationIndex |-> Uint32(SliceFrom(data, 1 + IndexByteSize)),
     trunkHash |-> tx.trunk,
     branchHash |-> tx.branch,
     bundleHash |-> tx.bundle,
     milestoneIndex |-> milestoneIndex]

NewMetadataIndexAtSolidificationTime(data, tx, milestoneIndex) ==
    [metadata |->
        ModifyBit(ModifyBit(ModifyBit(ModifyBit(data[1],
            TransactionMetadataIsHead, TxIsHead(tx)),
            TransactionMetadataIsTail, TxIsTail(tx)),
            TransactionMetadataIsValue, TxIsValue(tx)),
            TransactionMetadataIsMilestone, milestoneIndex # 0),
     confirmationIndex |-> Uint32(SliceFrom(data, 1)),
     trunkHash |-> tx.trunk,
     branchHash |-> tx.branch,
     bundleHash |-> tx.bundle,
     milestoneIndex |-> milestoneIndex]

\* The metadata record composed for one transaction: the bitmask and the
\* confirmation index read at the offsets of the old layout, the rest derived.
NewMetadata(data, tx, milestoneIndex) ==
    LET legacyMask == data[1]
        legacyIndex == Uint32(SliceFrom(data, 1 + IndexByteSize))
    IN [metadata |->
            ModifyBit(ModifyBit(ModifyBit(ModifyBit(legacyMask,
                TransactionMetadataIsHead, TxIsHead(tx)),
                TransactionMetadataIsTail, TxIsTail(tx)),
                TransactionMetadataIsValue, TxIsValue(tx)),
                TransactionMetadataIsMilestone, milestoneIndex # 0),
        confirmationIndex |-> legacyIndex,
        trunkHash |-> tx.trunk,
        branchHash |-> tx.branch,
        bundleHash |-> tx.bundle,
        milestoneIndex |-> milestoneIndex]

PutMetadataOtherRealm(store, key, txMeta) ==
    Set(store, StorePrefixMilestones, key, Marshal(txMeta))

\* Where the pass stores the record it composed.
PutMetadata(store, key, txMeta) ==
    Set(store, StorePrefixTransactionMetadata, key, Marshal(txMeta))

InnerErrOverwritten(err, assigned) == assigned

\* innerErr after a step that assigned it an error, or assigned nothing ("nil"):
\* the variable is only ever assigned errors.
InnerErr(err, assigned) == IF assigned = "nil" THEN err ELSE assigned

\* One call of the callback of metadataStore.Iterate: the store, the cache and
\* innerErr it leaves, and whether it returned true (the iteration goes on).
\* tick: the status interval has elapsed when the record is reached. fault: the
\* key-value operation that fails during this call ("none": none does); a
\* failure of Iterate itself ends the iteration with its error.
MigrateCallback(store, c, err, key, tick, abortAt, cancelled, fault) ==
    LET txHash == SubSeq(key, 1, HashSize)
        data == Get(store, StorePrefixTransactionMetadata, key)
        stay == [store |-> store, cache |-> c]
    IN IF fault = "iterate"
       THEN stay @@ [err |-> "iterateFailed", more |-> FALSE, saw |-> FALSE]
       ELSE IF tick /\ cancelled
       THEN stay @@ [err |-> "aborted", more |-> FALSE, saw |-> TRUE]
       ELSE IF fault = "txGet"
       THEN stay @@ [err |-> "txGetFailed", more |-> FALSE, saw |-> FALSE]
       ELSE IF ~Has(store, StorePrefixTransactions, txHash)
       THEN stay @@ [err |-> "txNotFound", more |-> FALSE, saw |-> FALSE]
       ELSE
         LET tx == Get(store, StorePrefixTransactions, txHash)
             hit == CacheHas(c, tx.bundle)
             found == IF hit
                      THEN [index |-> CacheValue(c, tx.bundle), err |-> "nil",
                            stop |-> FALSE, saw |-> FALSE]
                      ELSE ScanTails(store, TailKeys(store, tx.bundle), 1,
                                     IF cancelled THEN abortAt ELSE 0, fault)
             c2 == IF hit THEN CacheTouch(c, tx.bundle)
                   ELSE CacheAdd(c, tx.bundle, found.index)
         IN IF found.stop
            THEN stay @@ [err |-> found.err, more |-> FALSE, saw |-> found.saw]
            ELSE IF fault = "set"
            THEN [store |-> store, cache |-> c2, err |-> "setFailed", more |-> FALSE,
                  saw |-> found.saw]
            ELSE [store |-> PutMetadata(store, key, NewMetadata(data, tx, found.index)),
                  cache |-> c2, err |-> InnerErr(err, found.err), more |-> TRUE,
                  saw |-> found.saw]

----------------------------------------------------------------------------
\* New on the tangle store, and the pass it runs.

NoRerun == [on |-> FALSE, store |-> <<>>]
NoScan == [op |-> "none"]
NoGate == [pc |-> "none"]

Nil == [nil |-> TRUE]
Some(v) == [nil |-> FALSE, v |-> v]
\* A returned milestone index: a record of its own shape, so that an index and
\* an object returned by different operations are never the same value.
SomeIndex(n) == [nil |-> FALSE, index |-> n]
Callers == 1..NumCallers
Onces == {"ledger", "bundle", "sync"}

\* The Database object as New constructs it, with no caller in it.
FacadeIdle ==
    /\ db = [ledgerMilestoneIndex |-> 0, latestSolidMilestoneBundle |-> Nil,
             syncState |-> Nil]
    /\ once = [o \in Onces |-> [done |-> FALSE, holder |-> 0]]
    /\ idle = Callers
    /\ stack = [p \in Callers |-> <<>>]
    /\ panicking = {}
    /\ ret = [p \in Callers |-> Nil]
    /\ returned = {}
    /\ ledgerReads = 0
    /\ scan = NoScan

Init ==
    /\ tangle \in InitialStores
    /\ version = 2
    /\ phase = "closed"
    /\ iter = <<>>
    /\ cache = <<>>
    /\ innerErr = "nil"
    /\ ctxDone = FALSE
    /\ starts = 0
    /\ orig = tangle
    /\ passes = 0
    /\ rerun = NoRerun
    /\ observed = FALSE
    /\ faulted = FALSE
    /\ gate = NoGate
    /\ FacadeIdle

\* The start of migrateTangleDatabaseFunc: a new cache, no error, and the
\* iteration over all transaction metadata.
BeginPass ==
    /\ iter' = SortKeys(RealmKeys(tangle, StorePrefixTransactionMetadata))
    /\ cache' = <<>>
    /\ innerErr' = "nil"
    /\ observed' = FALSE
    /\ faulted' = FALSE

\* New opens the store read-only and checks its version; a store below DBVersion
\* is reopened read-write and handed to the upgrade function.
NewOpen ==
    /\ phase = "closed"
    /\ starts < MaxStarts
    /\ starts' = starts + 1
    /\ IF version = DBVersion
       THEN /\ phase' = "ready"
            /\ UNCHANGED <<iter, cache, innerErr, observed, faulted>>
       ELSE IF supportedDatabaseVersionUpgradeFunc(version, version + 1) # "nil"
       THEN /\ phase' = "failed"
            /\ UNCHANGED <<iter, cache, innerErr, observed, faulted>>
       ELSE /\ phase' = "migrating"
            /\ BeginPass
    /\ UNCHANGED <<tangle, version, ctxDone, orig, passes, rerun, gate, facadeVars>>

\* One record of the iteration over all transaction metadata.
MigrateRecord ==
    /\ phase = "migrating"
    /\ iter # <<>>
    /\ \E tick \in BOOLEAN, abortAt \in 0..Cardinality(Tails) :
         LET r == MigrateCallback(tangle, cache, innerErr, Head(iter), tick, abortAt,
                                  ctxDone, "none")
         IN /\ tangle' = r.store
            /\ cache' = r.cache
            /\ innerErr' = r.err
            /\ iter' = IF r.more THEN Tail(iter) ELSE <<>>
            /\ observed' = (observed \/ r.saw)
    /\ UNCHANGED <<version, phase, ctxDone, starts, orig, passes, rerun, faulted, gate,
                   facadeVars>>

PassResultDropsInnerErr(err) == "nil"
PassResultNilOnAborted(err) == IF err = "aborted" THEN "nil" ELSE err

\* What migrateTangleDatabaseFunc returns once the iteration has ended.
PassResult(err) == err

\* What the health tracker stores once the upgrade function has returned err.
VersionAfterUpgrade(old, err) == IF err = "nil" THEN old + 1 ELSE old

\* The pass returns innerErr; the health tracker persists the new version when the
\* upgrade function returned nil, and New fails otherwise.
PassReturn ==
    /\ phase = "migrating"
    /\ iter = <<>>
    /\ version' = IF rerun.on THEN version
                  ELSE VersionAfterUpgrade(version, PassResult(innerErr))
    /\ phase' = IF PassResult(innerErr) = "nil" THEN "ready" ELSE "failed"
    /\ passes' = IF PassResult(innerErr) = "nil" THEN passes + 1 ELSE passes
    /\ UNCHANGED <<tangle, iter, cache, innerErr, ctxDone, starts, orig, rerun, observed,
                   faulted, gate, facadeVars>>

\* The shutdown signal cancels the context New was given.
Cancel ==
    /\ phase = "migrating"
    /\ ~ctxDone
    /\ ctxDone' = TRUE
    /\ UNCHANGED <<tangle, version, phase, iter, cache, innerErr, starts, orig, passes,
                   rerun, observed, faulted, gate, facadeVars>>

\* The process ends and is started again on the same directories.
Restart ==
    /\ phase \in {"failed", "ready"}
    /\ starts < MaxStarts
    /\ ~rerun.on
    /\ phase' = "closed"
    /\ ctxDone' = FALSE
    /\ UNCHANGED <<tangle, version, iter, cache, innerErr, starts, orig, passes, rerun,
                   observed, faulted, gate, facadeVars>>

Next == NewOpen \/ MigrateRecord \/ PassReturn \/ Cancel \/ Restart

Spec == Init /\ [][Next]_vars

\* The pass run once more over a store it has migrated, whatever the version.
RerunPass ==
    /\ phase = "ready"
    /\ starts = 1
    /\ passes = 1
    /\ ~rerun.on
    /\ rerun' = [on |-> TRUE, store |-> tangle]
    /\ phase' = "migrating"
    /\ BeginPass
    /\ UNCHANGED <<tangle, version, ctxDone, starts, orig, passes, gate, facadeVars>>

NextRerun == NewOpen \/ MigrateRecord \/ PassReturn \/ RerunPass

SpecRerun == Init /\ [][NextRerun]_vars

\* One record of the iteration during which a key-value operation fails.
MigrateRecordFault ==
    /\ phase = "migrating"
    /\ iter # <<>>
    /\ \E fault \in Faults :
         LET r == MigrateCallback(tangle, cache, innerErr, Head(iter), FALSE, 0, FALSE,
                                  fault)
         IN /\ r # MigrateCallback(tangle, cache, innerErr, Head(iter), FALSE, 0, FALSE,
                                   "none")
            /\ tangle' = r.store
            /\ cache' = r.cache
            /\ innerErr' = r.err
            /\ iter' = IF r.more THEN Tail(iter) ELSE <<>>
            /\ faulted' = TRUE
    /\ UNCHANGED <<version, phase, ctxDone, starts, orig, passes, rerun, observed, gate,
                   facadeVars>>

NextFault == NewOpen \/ MigrateRecord \/ MigrateRecordFault \/ PassReturn

SpecFault == Init /\ [][NextFault]_vars

\* lru.Cache of a given capacity: the entries beyond it, the least recently
\* used ones, are evicted.
Evict(c, capacity) == IF Len(c) > capacity THEN SubSeq(c, 1, capacity) ELSE c

\* One record of the iteration with a milestone cache of a small capacity; the
\* capacity is chosen anew at every record, which covers every fixed one.
MigrateRecordCapped ==
    /\ phase = "migrating"
    /\ iter # <<>>
    /\ \E capacity \in 1..MaxCapacity :
         LET r == MigrateCallback(tangle, cache, innerErr, Head(iter), FALSE, 0, FALSE,
                                  "none")
         IN /\ tangle' = r.store
            /\ cache' = Evict(r.cache, capacity)
            /\ innerErr' = r.err
            /\ iter' = IF r.more THEN Tail(iter) ELSE <<>>
    /\ UNCHANGED <<version, phase, ctxDone, starts, orig, passes, rerun, observed,
                   faulted, gate, facadeVars>>

NextCache == NewOpen \/ MigrateRecordCapped \/ PassReturn

SpecCache == Init /\ [][NextCache]_vars

----------------------------------------------------------------------------
\* Properties of the migration.

MetadataKeys(store) == RealmKeys(store, StorePrefixTransactionMetadata)
MetadataOf(store, key) == Get(store, StorePrefixTransactionMetadata, key)
PayloadOf(store, key) == Get(store, StorePrefixTransactions, SubSeq(key, 1, HashSize))

\* The record one uninterrupted pass over the store before the first New writes
\* for a key: the tails are scanned to the end, nothing is cancelled.
SinglePassRecord(key) ==
    LET tx == PayloadOf(orig, key)
        found == ScanTails(orig, TailKeys(orig, tx.bundle), 1, 0, "none")
    IN Marshal(NewMetadata(MetadataOf(orig, key), tx, found.index))

\* C1: the pass writes only to the transaction-metadata realm and only at keys
\* that exist there: at every point of every pass, ended, failed or cancelled,
\* the key set of the store is the one before the first pass and the
\* transaction, bundle-transactions, bundle and milestone realms are unchanged.
C1_PassWritesOnlyMetadata ==
    /\ DOMAIN tangle = DOMAIN orig
    /\ \A realm \in {StorePrefixTransactions, StorePrefixBundleTransactions,
                     StorePrefixBundles, StorePrefixMilestones} :
         Realm(tangle, realm) = Realm(orig, realm)

\* A cancelled pass that had already rewritten records.
C1_Witness ==
    /\ phase = "failed"
    /\ innerErr = "aborted"
    /\ Realm(tangle, StorePrefixTransactionMetadata)
         # Realm(orig, StorePrefixTransactionMetadata)

\* C2: whenever the stored version is 3, a pass has returned without error and
\* every metadata record has the 156 bytes of the new layout.
C2_VersionThreeImpliesMigrated ==
    version = DBVersion =>
        /\ passes >= 1
        /\ \A key \in MetadataKeys(tangle) :
             Len(MetadataOf(tangle, key)) = TransactionMetadataSize

\* Version 3 on the second startup, every record rewritten.
C2_Witness ==
    /\ version = DBVersion
    /\ starts = 2
    /\ phase = "ready"
    /\ MetadataKeys(tangle) # {}

\* C3: a pass over records that are all migrated leaves every record as it was.
C3_RerunLeavesRecords ==
    (rerun.on /\ phase = "ready") =>
        Realm(tangle, StorePrefixTransactionMetadata)
            = Realm(rerun.store, StorePrefixTransactionMetadata)

\* C4: once a pass has succeeded, also after earlier passes were cancelled half
\* way, every record is the one a single uninterrupted pass would have written.
C4_RestartEqualsSinglePass ==
    (phase = "ready" /\ version = DBVersion) =>
        \A key \in MetadataKeys(tangle) : MetadataOf(tangle, key) = SinglePassRecord(key)

C6_DerivedFieldsMatchPayload ==
    (phase = "ready" /\ version = DBVersion) =>
        \A key \in MetadataKeys(tangle) :
            LET m == Unmarshal(MetadataOf(tangle, key))
                tx == PayloadOf(tangle, key)
            IN /\ HasBit(m.metadata, TransactionMetadataIsHead) = TxIsHead(tx)
               /\ HasBit(m.metadata, TransactionMetadataIsTail) = TxIsTail(tx)
               /\ HasBit(m.metadata, TransactionMetadataIsValue) = TxIsValue(tx)
               /\ m.trunkHash = tx.trunk
               /\ m.branchHash = tx.branch
               /\ m.bundleHash = tx.bundle
               /\ HasBit(m.metadata, TransactionMetadataIsMilestone)
                    = (m.milestoneIndex # 0)

\* A migrated store with a milestone record and a record that is none.
C6_Witness ==
    /\ phase = "ready"
    /\ version = DBVersion
    /\ \E key \in MetadataKeys(tangle) :
         Unmarshal(MetadataOf(tangle, key)).milestoneIndex = 7
    /\ \E key \in MetadataKeys(tangle) :
         ~HasBit(Unmarshal(MetadataOf(tangle, key)).metadata,
                 TransactionMetadataIsMilestone)

\* C19: a pass during which a key-value operation failed, or that met a record
\* whose payload is missing, returns an error, New fails and the version stays
\* 2; while the pass runs, an error assigned to innerErr stays an error.
C19_ErrorNeverLost ==
    /\ []((phase \in {"ready", "failed"} /\ passes + starts > 0
            /\ (faulted \/ \E key \in MetadataKeys(orig) :
                               ~Has(orig, StorePrefixTransactions, key)))
           => (PassResult(innerErr) # "nil" /\ phase = "failed" /\ version = 2))
    /\ [][(phase = "migrating" /\ innerErr # "nil") => innerErr' # "nil"]_vars

\* A read of the bundle realm failed inside a tail scan, the pass went on to
\* the last record and failed with that error.
C19_Witness ==
    /\ phase = "failed"
    /\ faulted
    /\ innerErr = "bundleGetFailed"
    /\ \A key \in MetadataKeys(tangle) :
         Len(MetadataOf(tangle, key)) = TransactionMetadataSize

\* The bits of the legacy bitmask the pass does not derive.
LegacyBits == {TransactionMetadataSolid, TransactionMetadataConfirmed,
               TransactionMetadataConflicting}

\* C26: every step of the pass that rewrites a record of the legacy layout
\* keeps its Solid, Confirmed and Conflicting bits and stores bytes 5..8 of
\* the legacy record as bytes 1..4 of the new one; after the pass of the first
\* start every record has the three bits and the confirmation index of the
\* record the store held before.
C26_LegacyBitsAndIndexKept ==
    /\ [][\A key \in MetadataKeys(tangle) :
            (/\ MetadataOf(tangle', key) # MetadataOf(tangle, key)
             /\ Len(MetadataOf(tangle, key)) # TransactionMetadataSize)
            => /\ \A bit \in LegacyBits :
                    HasBit(MetadataOf(tangle', key)[1], bit)
                      = HasBit(MetadataOf(tangle, key)[1], bit)
               /\ Slice(MetadataOf(tangle', key), 1, 1 + IndexByteSize)
                    = Slice(MetadataOf(tangle, key), 1 + IndexByteSize,
                            1 + 2 * IndexByteSize)]_vars
    /\ []((phase = "ready" /\ version = DBVersion /\ starts = 1) =>
            \A key \in MetadataKeys(tangle) :
                /\ \A bit \in LegacyBits :
                     HasBit(MetadataOf(tangle, key)[1], bit)
                       = HasBit(MetadataOf(orig, key)[1], bit)
                /\ Unmarshal(MetadataOf(tangle, key)).confirmationIndex
                     = Uint32(Slice(MetadataOf(orig, key), 1 + IndexByteSize,
                                    1 + 2 * IndexByteSize)))

\* A migrated store with a confirmed record of index 5, a record that is not
\* confirmed and a conflicting one.
C26_Witness ==
    /\ phase = "ready"
    /\ version = DBVersion
    /\ starts = 1
    /\ Unmarshal(MetadataOf(tangle, TxHash(1))).confirmationIndex = 5
    /\ HasBit(MetadataOf(tangle, TxHash(1))[1], TransactionMetadataConfirmed)
    /\ ~HasBit(MetadataOf(tangle, TxHash(3))[1], TransactionMetadataConfirmed)
    /\ HasBit(MetadataOf(tangle, TxHash(3))[1], TransactionMetadataConflicting)
    /\ HasBit(MetadataOf(orig, TxHash(3))[1], TransactionMetadataConflicting)

\* The errors that only the callback of the tail scan assigns to innerErr.
ScanErrors == {"bundleGetFailed", "tailGetFailed", "tailNotPersisted", "emptyTail"}

\* C25: the step of the pass in which the tail scan of a bundle detects an
\* error ends the pass: it writes no record, caches nothing and leaves no
\* record to visit.
C25_ScanErrorStopsPass ==
    [][(phase = "migrating" /\ innerErr \notin ScanErrors /\ innerErr' \in ScanErrors)
         => (tangle' = tangle /\ cache' = cache /\ iter' = <<>>)]_vars

MilestoneTails(store, bundleHash) ==
    SelectSeq(TailKeys(store, bundleHash),
              LAMBDA k : /\ Has(store, StorePrefixBundles, Slice(k, 50, 99))
                         /\ BundleIsMilestone(Get(store, StorePrefixBundles,
                                                   Slice(k, 50, 99))))

\* C11: when a bundle hash has two tails of which exactly one has a milestone
\* bundle, whichever comes first, a successful migration gives every
\* transaction of that bundle hash the obsolete tag of the milestone tail as
\* milestoneIndex, with the IsMilestone bit set.
C11_MilestoneAmongTwoTails ==
    (phase = "ready" /\ version = DBVersion) =>
        \A b \in BundleIds :
            LET ms == MilestoneTails(orig, BundleHash(b))
            IN (Len(TailKeys(orig, BundleHash(b))) = 2 /\ Len(ms) = 1) =>
                 \A key \in MetadataKeys(tangle) :
                     PayloadOf(tangle, key).bundle = BundleHash(b) =>
                         LET m == Unmarshal(MetadataOf(tangle, key))
                         IN /\ m.milestoneIndex
                                 = PayloadOf(orig, Slice(ms[1], 50, 99)).obsoleteTag
                            /\ m.milestoneIndex # 0
                            /\ HasBit(m.metadata, TransactionMetadataIsMilestone)

\* Bundle 1 has the tails 1 and 3, the milestone is the second one, and the
\* transaction 2 of the bundle was migrated to its index.
C11_Witness ==
    /\ phase = "ready"
    /\ version = DBVersion
    /\ Len(TailKeys(orig, BundleHash(1))) = 2
    /\ MilestoneTails(orig, BundleHash(1)) = <<BundleTxKey(BundleHash(1), TRUE, TxHash(3))>>
    /\ PayloadOf(tangle, TxHash(2)).bundle = BundleHash(1)
    /\ Unmarshal(MetadataOf(tangle, TxHash(2))).milestoneIndex = 9

\* The tail transaction the cached index of a bundle hash was resolved from.
ResolvingTail(bundleHash) ==
    Get(tangle, StorePrefixTransactions,
        Slice(MilestoneTails(tangle, bundleHash)[1], 50, 99))

\* C12 as stated: the index cached for a bundle hash is the timestamp of the
\* tail transaction of its milestone bundle.
C12_IndexFromTimestamp ==
    \A n \in 1..Len(cache) :
        cache[n].value # 0 => cache[n].value = ResolvingTail(cache[n].key).timestamp

\* C12 as amended: the index cached for a bundle hash is the obsolete tag of the
\* tail transaction of the first milestone bundle among its tails; a scan that
\* met no error caches it whenever there is such a bundle.
C12_IndexFromObsoleteTag ==
    \A n \in 1..Len(cache) :
        LET ms == MilestoneTails(tangle, cache[n].key)
        IN /\ cache[n].value # 0 =>
                /\ Len(ms) > 0
                /\ cache[n].value = ResolvingTail(cache[n].key).obsoleteTag
           /\ (Len(ms) > 0 /\ innerErr = "nil") =>
                cache[n].value = ResolvingTail(cache[n].key).obsoleteTag

\* The pass has cached index 9 for a bundle whose milestone tail has obsolete
\* tag 9 and timestamp 1003.
C12_Witness ==
    /\ phase = "migrating"
    /\ \E n \in 1..Len(cache) :
         /\ cache[n].value = 9
         /\ ResolvingTail(cache[n].key).obsoleteTag = 9
         /\ ResolvingTail(cache[n].key).timestamp = 1003

\* C27: while the pass has met no error, the index cached for a bundle hash
\* is the obsolete tag of the first of its tails, in the order of the store,
\* whose bundle record exists and is a milestone, and 0 when it has no such
\* tail; tails without a bundle record do not end the scan, and a tail after
\* the first milestone tail is not read, so that its missing payload is no
\* error.
C27_FirstMilestoneTailWins ==
    innerErr = "nil" =>
        \A n \in 1..Len(cache) :
            LET ms == MilestoneTails(tangle, cache[n].key)
            IN /\ ms = <<>> => cache[n].value = 0
               /\ ms # <<>> =>
                    /\ Has(tangle, StorePrefixTransactions, Slice(ms[1], 50, 99))
                    /\ cache[n].value
                         = Get(tangle, StorePrefixTransactions,
                               Slice(ms[1], 50, 99)).obsoleteTag

\* Bundle 1 has the milestone tails 1 and 3 and the payload of 3 is missing:
\* the scan stopped at tail 1, cached 7 and met no error.
C27_Witness ==
    /\ phase = "migrating"
    /\ innerErr = "nil"
    /\ cache = <<[key |-> BundleHash(1), value |-> 7]>>
    /\ Len(MilestoneTails(tangle, BundleHash(1))) = 2
    /\ ~Has(tangle, StorePrefixTransactions, TxHash(3))

\* C28: whatever the cache holds after hits, misses and evictions, every
\* step of the pass leaves the store a step with an empty cache, which scans
\* the tails, would leave; and every cached index, 0 included, is the index a
\* scan of the tails of its bundle hash resolves.
C28_CacheDoesNotChangeRecords ==
    /\ [][(phase = "migrating" /\ iter # <<>>) =>
            tangle' = MigrateCallback(tangle, <<>>, innerErr, Head(iter), FALSE, 0,
                                      FALSE, "none").store]_vars
    /\ [](\A n \in 1..Len(cache) :
            cache[n].value
              = ScanTails(tangle, TailKeys(tangle, cache[n].key), 1, 0, "none").index)

\* A pass over the bundles 1, 2, 1 has ended with one entry in the cache: the
\* entry of bundle 1 was evicted by bundle 2 and resolved again, and record 3
\* carries the index of record 1.
C28_Witness ==
    /\ phase = "ready"
    /\ passes = 1
    /\ cache = <<[key |-> BundleHash(1), value |-> 7]>>
    /\ PayloadOf(tangle, TxHash(2)).bundle = BundleHash(2)
    /\ PayloadOf(tangle, TxHash(3)).bundle = BundleHash(1)
    /\ Unmarshal(MetadataOf(tangle, TxHash(3))).milestoneIndex = 7
    /\ Unmarshal(MetadataOf(tangle, TxHash(1))).milestoneIndex = 7

\* C29: after a successful pass, any two records whose transactions have the
\* same bundle hash carry the same milestoneIndex and the same IsMilestone
\* bit, whichever attachment of the bundle they belong to.
C29_BundleSharesMilestoneIndex ==
    (phase = "ready" /\ version = DBVersion) =>
        \A a, b \in MetadataKeys(tangle) :
            PayloadOf(tangle, a).bundle = PayloadOf(tangle, b).bundle =>
                /\ Unmarshal(MetadataOf(tangle, a)).milestoneIndex
                     = Unmarshal(MetadataOf(tangle, b)).milestoneIndex
                /\ HasBit(MetadataOf(tangle, a)[1], TransactionMetadataIsMilestone)
                     = HasBit(MetadataOf(tangle, b)[1], TransactionMetadataIsMilestone)

\* Bundle hash 1 has the milestone attachment of tail 1 and an attachment of
\* tail 3 whose bundle record is no milestone; the record of transaction 3
\* carries index 7 and the IsMilestone bit.
C29_Witness ==
    /\ phase = "ready"
    /\ version = DBVersion
    /\ PayloadOf(tangle, TxHash(3)).bundle = BundleHash(1)
    /\ Has(tangle, StorePrefixBundles, TxHash(3))
    /\ ~BundleIsMilestone(Get(tangle, StorePrefixBundles, TxHash(3)))
    /\ Unmarshal(MetadataOf(tangle, TxHash(1))).milestoneIndex = 7
    /\ Unmarshal(MetadataOf(tangle, TxHash(3))).milestoneIndex = 7
    /\ HasBit(MetadataOf(tangle, TxHash(3))[1], TransactionMetadataIsMilestone)

----------------------------------------------------------------------------
\* The query facade on a store New has opened: the memoized singletons.

\* The store a whole pass without cancellation leaves.
RECURSIVE MigrateKeys(_, _, _)
MigrateKeys(store, c, keys) ==
    IF keys = <<>> THEN store
    ELSE LET r == MigrateCallback(store, c, "nil", Head(keys), FALSE, 0, FALSE, "none")
         IN IF r.more THEN MigrateKeys(r.store, r.cache, Tail(keys)) ELSE r.store
MigrateAll(store) ==
    MigrateKeys(store, <<>>, SortKeys(RealmKeys(store, StorePrefixTransactionMetadata)))

\* The stores the facade is opened on: migrated, the ledger index is 7, and the
\* ledger key or the bundle of milestone 7 may be absent.
FacadeStores ==
    {MigrateAll(StoreOf(StoreEntries([i \in TxIds |-> 1], c[1], c[2], 2, 0, c[3]))) :
        c \in {<<{1}, 0, 7>>, <<{1}, 0, 0>>, <<{1}, 1, 7>>}}

MigrationOver ==
    /\ version = DBVersion
    /\ phase = "ready"
    /\ iter = <<>>
    /\ cache = <<>>
    /\ innerErr = "nil"
    /\ ctxDone = FALSE
    /\ starts = 1
    /\ orig = tangle
    /\ passes = 0
    /\ rerun = NoRerun
    /\ observed = FALSE
    /\ faulted = FALSE
    /\ gate = NoGate

milestoneIndexFromBytes(value) == Uint32(value)
milestoneIndexFromDatabaseKey(key) == Uint32(key)

\* Database.MilestoneOrNil.
MilestoneOrNil(store, milestoneIndex) ==
    LET key == databaseKeyForMilestoneIndex(milestoneIndex)
    IN IF ~Has(store, StorePrefixMilestones, key) THEN Nil
       ELSE Some([Index |-> milestoneIndexFromDatabaseKey(key),
                  Hash |-> SubSeq(Get(store, StorePrefixMilestones, key), 1, HashSize)])

\* Database.BundleOrNil.
BundleOrNil(store, tailTxHash) ==
    IF ~Has(store, StorePrefixBundles, databaseKeyForBundle(tailTxHash)) THEN Nil
    ELSE Some(Get(store, StorePrefixBundles, databaseKeyForBundle(tailTxHash)))

\* Database.MilestoneBundleOrNil.
MilestoneBundleOrNil(store, milestoneIndex) ==
    LET ms == MilestoneOrNil(store, milestoneIndex)
    IN IF ms.nil THEN Nil ELSE BundleOrNil(store, ms.v.Hash)

\* The snapshot info New loaded, and hornet.Hash.Trytes.
SnapshotInfo == [PruningIndex |-> 1, CoordinatorAddress |-> HashOf(30)]
Trytes(hash) == [trytes |-> hash]

Ops == {"LedgerIndex", "SolidMilestoneIndex", "LatestSolidMilestoneBundle",
        "LatestSyncState"}
OnceOps == Ops \ {"SolidMilestoneIndex"}

\* The sync.Once that guards the field an operation returns.
OnceOf(fn) ==
    CASE fn = "LedgerIndex" -> "ledger"
      [] fn = "LatestSolidMilestoneBundle" -> "bundle"
      [] fn = "LatestSyncState" -> "sync"

\* The memoized field an operation returns.
FieldOf(d, fn) ==
    CASE fn = "LedgerIndex" -> SomeIndex(d.ledgerMilestoneIndex)
      [] fn = "LatestSolidMilestoneBundle" -> d.latestSolidMilestoneBundle
      [] fn = "LatestSyncState" -> d.syncState

Frame(fn) == [fn |-> fn, pc |-> IF fn = "SolidMilestoneIndex" THEN "call" ELSE "do",
              idx |-> 0]
Running(p) == stack[p] # <<>> /\ p \notin panicking
Top(p) == stack[p][Len(stack[p])]
At(p, fns, pc) == Running(p) /\ Top(p).fn \in fns /\ Top(p).pc = pc
Goto(p, pc) == [stack EXCEPT ![p] = [@ EXCEPT ![Len(@)].pc = pc]]
GotoAndCall(p, pc, fn) ==
    [stack EXCEPT ![p] = Append([@ EXCEPT ![Len(@)].pc = pc], Frame(fn))]
Pop(p) == [stack EXCEPT ![p] = SubSeq(@, 1, Len(@) - 1)]
InF == {"f", "f2", "f3"}

AdmittedAtOnce == TRUE

\* The query facade exists: New has returned the Database object.
Admitted == phase = "ready"

\* A caller enters one of the four operations.
Call(p, fn) ==
    /\ Admitted
    /\ p \in idle
    /\ idle' = idle \ {p}
    /\ stack' = [stack EXCEPT ![p] = <<Frame(fn)>>]
    /\ UNCHANGED <<tangle, migVars, db, once, panicking, ret, returned, ledgerReads,
                   scan>>

\* Once.Do: the done flag is loaded; the slow path is taken when it is not set.
DoFast(p) ==
    /\ At(p, OnceOps, "do")
    /\ stack' = Goto(p, IF once[OnceOf(Top(p).fn)].done THEN "return" ELSE "lock")
    /\ UNCHANGED <<tangle, migVars, idle, db, once, panicking, ret, returned, ledgerReads,
                   scan>>

LockFreeAlways(o) == TRUE

\* Whether Mutex.Lock of a Once can return.
LockFree(o) == once[o].holder = 0

\* Once.doSlow: the mutex of the Once is taken.
DoLock(p) ==
    /\ At(p, OnceOps, "lock")
    /\ LockFree(OnceOf(Top(p).fn))
    /\ once' = [once EXCEPT ![OnceOf(Top(p).fn)].holder = p]
    /\ stack' = Goto(p, "locked")
    /\ UNCHANGED <<tangle, migVars, idle, db, panicking, ret, returned, ledgerReads,
                   scan>>

DoSlowRunsAlways(o) == TRUE

\* Once.doSlow: f runs when the done flag is still not set under the mutex.
DoSlowRuns(o) == ~once[o].done

DoLocked(p) ==
    /\ At(p, OnceOps, "locked")
    /\ stack' = Goto(p, IF DoSlowRuns(OnceOf(Top(p).fn)) THEN "f" ELSE "unlock")
    /\ UNCHANGED <<tangle, migVars, idle, db, once, panicking, ret, returned, ledgerReads,
                   scan>>

\* The initializer of LedgerIndex: the ledger-state realm is read; a missing key
\* panics.
LedgerInit(p) ==
    /\ At(p, {"LedgerIndex"}, "f")
    /\ ledgerReads' = ledgerReads + 1
    /\ IF Has(tangle, StorePrefixLedgerState, ledgerMilestoneIndexKey)
       THEN /\ db' = [db EXCEPT !.ledgerMilestoneIndex = milestoneIndexFromBytes(
                        Get(tangle, StorePrefixLedgerState, ledgerMilestoneIndexKey))]
            /\ stack' = Goto(p, "store")
            /\ UNCHANGED panicking
       ELSE /\ panicking' = panicking \cup {p}
            /\ UNCHANGED <<db, stack>>
    /\ UNCHANGED <<tangle, migVars, idle, once, ret, returned, scan>>

\* The initializer of LatestSolidMilestoneBundle calls SolidMilestoneIndex.
BundleInitCall(p) ==
    /\ At(p, {"LatestSolidMilestoneBundle"}, "f")
    /\ stack' = GotoAndCall(p, "f2", "SolidMilestoneIndex")
    /\ UNCHANGED <<tangle, migVars, idle, db, once, panicking, ret, returned, ledgerReads,
                   scan>>

\* ... and looks the milestone bundle up; a bundle that is not found panics.
BundleInit(p) ==
    /\ At(p, {"LatestSolidMilestoneBundle"}, "f2")
    /\ LET bundle == MilestoneBundleOrNil(tangle, ret[p].index)
       IN IF bundle.nil
          THEN /\ panicking' = panicking \cup {p}
               /\ UNCHANGED <<db, stack>>
          ELSE /\ db' = [db EXCEPT !.latestSolidMilestoneBundle = bundle]
               /\ stack' = Goto(p, "store")
               /\ UNCHANGED panicking
    /\ UNCHANGED <<tangle, migVars, idle, once, ret, returned, ledgerReads, scan>>

NewSyncStateFromPruningIndex(ledgerIndex, bundle) ==
    [LatestMilestone |-> Trytes(bundle.tailTx),
     LatestMilestoneIndex |-> SnapshotInfo.PruningIndex,
     LatestSolidSubtangleMilestone |-> Trytes(bundle.tailTx),
     LatestSolidSubtangleMilestoneIndex |-> ledgerIndex,
     MilestoneStartIndex |-> SnapshotInfo.PruningIndex,
     LastSnapshottedMilestoneIndex |-> SnapshotInfo.PruningIndex,
     CoordinatorAddress |-> Trytes(SnapshotInfo.CoordinatorAddress)]

\* The SyncState composed from the ledger index and the latest solid milestone
\* bundle, whose MilestoneHash is the hash of its tail transaction.
NewSyncState(ledgerIndex, bundle) ==
    [LatestMilestone |-> Trytes(bundle.tailTx),
     LatestMilestoneIndex |-> ledgerIndex,
     LatestSolidSubtangleMilestone |-> Trytes(bundle.tailTx),
     LatestSolidSubtangleMilestoneIndex |-> ledgerIndex,
     MilestoneStartIndex |-> SnapshotInfo.PruningIndex,
     LastSnapshottedMilestoneIndex |-> SnapshotInfo.PruningIndex,
     CoordinatorAddress |-> Trytes(SnapshotInfo.CoordinatorAddress)]

\* The initializer of LatestSyncState calls LedgerIndex,
SyncInitCallLedger(p) ==
    /\ At(p, {"LatestSyncState"}, "f")
    /\ stack' = GotoAndCall(p, "f2", "LedgerIndex")
    /\ UNCHANGED <<tangle, migVars, idle, db, once, panicking, ret, returned, ledgerReads,
                   scan>>

\* then LatestSolidMilestoneBundle,
SyncInitCallBundle(p) ==
    /\ At(p, {"LatestSyncState"}, "f2")
    /\ stack' = [GotoAndCall(p, "f3", "LatestSolidMilestoneBundle")
                    EXCEPT ![p][Len(stack[p])].idx = ret[p].index]
    /\ UNCHANGED <<tangle, migVars, idle, db, once, panicking, ret, returned, ledgerReads,
                   scan>>

\* and composes the sync state; MilestoneHash of a nil bundle panics.
SyncInit(p) ==
    /\ At(p, {"LatestSyncState"}, "f3")
    /\ IF ret[p].nil
       THEN /\ panicking' = panicking \cup {p}
            /\ UNCHANGED <<db, stack>>
       ELSE /\ db' = [db EXCEPT !.syncState =
                            Some(NewSyncState(Top(p).idx, ret[p].v))]
            /\ stack' = Goto(p, "store")
            /\ UNCHANGED panicking
    /\ UNCHANGED <<tangle, migVars, idle, once, ret, returned, ledgerReads, scan>>

\* Once.doSlow, f has returned: the deferred done.Store(1),
StoreDone(p) ==
    /\ At(p, OnceOps, "store")
    /\ once' = [once EXCEPT ![OnceOf(Top(p).fn)].done = TRUE]
    /\ stack' = Goto(p, "unlock")
    /\ UNCHANGED <<tangle, migVars, idle, db, panicking, ret, returned, ledgerReads,
                   scan>>

\* doSlow without the deferred Unlock: the mutex stays taken.
UnlockKeepsMutex(p) ==
    /\ At(p, OnceOps, "unlock")
    /\ stack' = Goto(p, "return")
    /\ UNCHANGED <<tangle, migVars, idle, db, once, panicking, ret, returned, ledgerReads,
                   scan>>

\* and the deferred Unlock.
Unlock(p) ==
    /\ At(p, OnceOps, "unlock")
    /\ once' = [once EXCEPT ![OnceOf(Top(p).fn)].holder = 0]
    /\ stack' = Goto(p, "return")
    /\ UNCHANGED <<tangle, migVars, idle, db, panicking, ret, returned, ledgerReads,
                   scan>>

\* The operation returns its memoized field.
Return(p) ==
    /\ At(p, OnceOps, "return")
    /\ stack' = Pop(p)
    /\ ret' = [ret EXCEPT ![p] = IF Len(stack[p]) = 1 THEN Nil
                                 ELSE FieldOf(db, Top(p).fn)]
    /\ returned' = returned \cup {<<Top(p).fn, FieldOf(db, Top(p).fn)>>}
    /\ UNCHANGED <<tangle, migVars, idle, db, once, panicking, ledgerReads, scan>>

\* SolidMilestoneIndex returns db.LedgerIndex().
SolidCall(p) ==
    /\ At(p, {"SolidMilestoneIndex"}, "call")
    /\ stack' = GotoAndCall(p, "result", "LedgerIndex")
    /\ UNCHANGED <<tangle, migVars, idle, db, once, panicking, ret, returned, ledgerReads,
                   scan>>

SolidReturn(p) ==
    /\ At(p, {"SolidMilestoneIndex"}, "result")
    /\ stack' = Pop(p)
    /\ returned' = returned \cup {<<"SolidMilestoneIndex", ret[p]>>}
    /\ ret' = [ret EXCEPT ![p] = IF Len(stack[p]) = 1 THEN Nil ELSE @]
    /\ UNCHANGED <<tangle, migVars, idle, db, once, panicking, ledgerReads, scan>>

\* A panic unwinds the frame on top: inside f the deferred done.Store(1) runs,
UnwindStore(p) ==
    /\ p \in panicking
    /\ stack[p] # <<>>
    /\ Top(p).pc \in InF
    /\ once' = [once EXCEPT ![OnceOf(Top(p).fn)].done = TRUE]
    /\ stack' = Goto(p, "panicUnlock")
    /\ UNCHANGED <<tangle, migVars, idle, db, panicking, ret, returned, ledgerReads,
                   scan>>

\* then the deferred Unlock, and the panic goes on to the caller;
UnwindUnlock(p) ==
    /\ p \in panicking
    /\ stack[p] # <<>>
    /\ Top(p).pc = "panicUnlock"
    /\ once' = [once EXCEPT ![OnceOf(Top(p).fn)].holder = 0]
    /\ stack' = Pop(p)
    /\ panicking' = IF Len(stack[p]) = 1 THEN panicking \ {p} ELSE panicking
    /\ UNCHANGED <<tangle, migVars, idle, db, ret, returned, ledgerReads, scan>>

\* a frame outside any Once has nothing deferred.
UnwindPop(p) ==
    /\ p \in panicking
    /\ stack[p] # <<>>
    /\ Top(p).pc \notin InF \cup {"panicUnlock"}
    /\ stack' = Pop(p)
    /\ panicking' = IF Len(stack[p]) = 1 THEN panicking \ {p} ELSE panicking
    /\ UNCHANGED <<tangle, migVars, idle, db, once, ret, returned, ledgerReads, scan>>

InitFacade ==
    /\ tangle \in FacadeStores
    /\ MigrationOver
    /\ FacadeIdle

NextOnce ==
    \E p \in Callers :
        \/ \E fn \in Ops : Call(p, fn)
        \/ DoFast(p)
        \/ DoLock(p)
        \/ DoLocked(p)
        \/ LedgerInit(p)
        \/ BundleInitCall(p)
        \/ BundleInit(p)
        \/ SyncInitCallLedger(p)
        \/ SyncInitCallBundle(p)
        \/ SyncInit(p)
        \/ StoreDone(p)
        \/ Unlock(p)
        \/ Return(p)
        \/ SolidCall(p)
        \/ SolidReturn(p)
        \/ UnwindStore(p)
        \/ UnwindUnlock(p)
        \/ UnwindPop(p)

SpecOnce == InitFacade /\ [][NextOnce]_vars

\* The steps of a caller inside an operation. The scheduler runs every goroutine
\* that can take a step, and a goroutine blocked in Mutex.Lock is woken when
\* the mutex is released; nothing makes a caller enter an operation.
Proceed(p) ==
    \/ DoFast(p)
    \/ DoLock(p)
    \/ DoLocked(p)
    \/ LedgerInit(p)
    \/ BundleInitCall(p)
    \/ BundleInit(p)
    \/ SyncInitCallLedger(p)
    \/ SyncInitCallBundle(p)
    \/ SyncInit(p)
    \/ StoreDone(p)
    \/ Unlock(p)
    \/ Return(p)
    \/ SolidCall(p)
    \/ SolidReturn(p)
    \/ UnwindStore(p)
    \/ UnwindUnlock(p)
    \/ UnwindPop(p)

\* Every step of Proceed changes the caller's stack or the set of panicking
\* callers, in which the fairness condition is stated.
SpecOnceFair == SpecOnce /\ \A p \in Callers : WF_<<stack, panicking>>(Proceed(p))

----------------------------------------------------------------------------
\* Properties of the memoized singletons.

\* LedgerIndex and SolidMilestoneIndex return the same field.
Group(fn) == IF fn = "SolidMilestoneIndex" THEN "LedgerIndex" ELSE fn

\* The callers that are running the initializer of a Once.
Initializing(o) ==
    {p \in Callers : \E n \in 1..Len(stack[p]) :
        /\ stack[p][n].fn \in OnceOps
        /\ OnceOf(stack[p][n].fn) = o
        /\ stack[p][n].pc \in InF \cup {"store"}}

\* C7: in every interleaving the ledger-state realm is read at most once, it has
\* been read exactly once when any caller has returned, and all the calls of one
\* operation that returned, from whatever caller, returned the same value.
C7_OneReadSameValue ==
    /\ ledgerReads <= 1
    /\ returned # {} => ledgerReads = 1
    /\ \A a, b \in returned : Group(a[1]) = Group(b[1]) => a[2] = b[2]

\* Two first calls of LedgerIndex in flight at once, both about to return.
C7_Witness ==
    /\ returned = {}
    /\ ledgerReads = 1
    /\ \E p, q \in Callers :
         /\ p # q
         /\ At(p, {"LedgerIndex"}, "return") /\ Len(stack[p]) = 1
         /\ At(q, {"LedgerIndex"}, "unlock") /\ Len(stack[q]) = 1

ValueOf(d, o) ==
    CASE o = "ledger" -> SomeIndex(d.ledgerMilestoneIndex)
      [] o = "bundle" -> d.latestSolidMilestoneBundle
      [] o = "sync" -> d.syncState

\* C8: at most one caller at a time runs the initializer of a singleton, no
\* caller returns from an operation before its singleton is Ready, and a
\* singleton that is Ready stays Ready with the same value.
C8_OnceStateMachine ==
    /\ [](\A o \in Onces : Cardinality(Initializing(o)) <= 1)
    /\ [](\A p \in Callers :
            At(p, OnceOps, "return") => once[OnceOf(Top(p).fn)].done)
    /\ [][\A o \in Onces :
            once[o].done => (once'[o].done /\ ValueOf(db', o) = ValueOf(db, o))]_vars

\* A caller that arrived while the ledger index was Initializing holds the
\* mutex after the singleton became Ready.
C8_Witness ==
    /\ once["ledger"].done
    /\ db.ledgerMilestoneIndex = 7
    /\ \E p \in Callers : At(p, {"LedgerIndex"}, "locked")

\* C22: every value SolidMilestoneIndex has returned is the value LedgerIndex
\* returns, the memoized ledger index, and every SyncState LatestSyncState
\* has returned carries that index as both milestone indexes,
\* the hash of the milestone bundle stored at that index as both milestone
\* hashes, and the pruning index of the snapshot as both snapshot indexes.
C22_SyncStateComposition ==
    \A r \in returned :
        /\ r[1] \in {"SolidMilestoneIndex", "LedgerIndex"} =>
             r[2] = SomeIndex(db.ledgerMilestoneIndex)
        /\ (r[1] = "LatestSyncState" /\ ~r[2].nil) =>
             LET s == r[2].v
                 bundle == MilestoneBundleOrNil(tangle, db.ledgerMilestoneIndex)
             IN /\ once["ledger"].done
                /\ s.LatestMilestoneIndex = db.ledgerMilestoneIndex
                /\ s.LatestSolidSubtangleMilestoneIndex = db.ledgerMilestoneIndex
                /\ ~bundle.nil
                /\ s.LatestMilestone = Trytes(bundle.v.tailTx)
                /\ s.LatestSolidSubtangleMilestone = Trytes(bundle.v.tailTx)
                /\ s.MilestoneStartIndex = SnapshotInfo.PruningIndex
                /\ s.LastSnapshottedMilestoneIndex = SnapshotInfo.PruningIndex

\* Both LatestSyncState and SolidMilestoneIndex have returned, on a store
\* whose ledger index is 7.
C22_Witness ==
    /\ <<"SolidMilestoneIndex", SomeIndex(7)>> \in returned
    /\ \E r \in returned :
         /\ r[1] = "LatestSyncState"
         /\ ~r[2].nil
         /\ r[2].v.LatestMilestoneIndex = 7
         /\ r[2].v.LatestMilestone = Trytes(TxHash(1))

\* C31: every bundle LatestSolidMilestoneBundle has returned is the milestone
\* bundle stored at the ledger index and not nil, and every index LedgerIndex
\* or SolidMilestoneIndex has returned is the value of the ledger-state realm.
C31_NoUninitializedValueReturned ==
    \A r \in returned :
        /\ r[1] = "LatestSolidMilestoneBundle" =>
             /\ ~r[2].nil
             /\ ~MilestoneBundleOrNil(tangle, db.ledgerMilestoneIndex).nil
             /\ r[2].v.tailTx
                  = MilestoneBundleOrNil(tangle, db.ledgerMilestoneIndex).v.tailTx
        /\ r[1] \in {"LedgerIndex", "SolidMilestoneIndex"} =>
             /\ Has(tangle, StorePrefixLedgerState, ledgerMilestoneIndexKey)
             /\ r[2].index = milestoneIndexFromBytes(
                     Get(tangle, StorePrefixLedgerState, ledgerMilestoneIndexKey))

----------------------------------------------------------------------------
\* The capped prefix scans over the bundle-transactions realm.

Min(a, b) == IF a < b THEN a ELSE b

CapReachedOffByOne(i, maxFind) == Len(maxFind) > 0 /\ i >= maxFind[1]
CapNeverReached(i, maxFind) == FALSE

\* The test the callbacks make after i++: a limit is given and i is beyond it.
CapReached(i, maxFind) == Len(maxFind) > 0 /\ i > maxFind[1]

\* The callback of BundleTransactionHashes applied to the keys from position n on:
\* the hashes appended and the number of keys the callback was invoked for.
RECURSIVE CollectHashes(_, _, _, _)
CollectHashes(keys, n, maxFind, hashes) ==
    IF n > Len(keys) THEN [hashes |-> hashes, visited |-> Len(keys)]
    ELSE IF CapReached(n, maxFind) THEN [hashes |-> hashes, visited |-> n]
    ELSE CollectHashes(keys, n + 1, maxFind, Append(hashes, Slice(keys[n], 50, 99)))

\* Database.BundleTransactionHashes; maxFind is <<>> or <<k>>.
BundleTransactionHashes(store, bundleHash, maxFind) ==
    CollectHashes(IterateKeys(store, StorePrefixBundleTransactions,
                              databaseKeyPrefixForBundleHash(bundleHash)),
                  1, maxFind, <<>>)

\* The consumer of ForEachBundleTailTransactionHash that goes on after it has
\* returned false.
RECURSIVE ConsumeTailsAfterFalse(_, _, _, _, _)
ConsumeTailsAfterFalse(keys, n, maxFind, stopAt, hashes) ==
    IF n > Len(keys) THEN [hashes |-> hashes, visited |-> Len(keys)]
    ELSE IF CapReached(n, maxFind) THEN [hashes |-> hashes, visited |-> n]
    ELSE ConsumeTailsAfterFalse(keys, n + 1, maxFind, stopAt,
                                Append(hashes, Slice(keys[n], 50, 99)))

\* The callback of ForEachBundleTailTransactionHash; the consumer returns false
\* at its call number stopAt (0: it never does).
RECURSIVE ConsumeTails(_, _, _, _, _)
ConsumeTails(keys, n, maxFind, stopAt, hashes) ==
    IF n > Len(keys) THEN [hashes |-> hashes, visited |-> Len(keys)]
    ELSE IF CapReached(n, maxFind) THEN [hashes |-> hashes, visited |-> n]
    ELSE IF Len(hashes) + 1 = stopAt
    THEN [hashes |-> Append(hashes, Slice(keys[n], 50, 99)), visited |-> n]
    ELSE ConsumeTails(keys, n + 1, maxFind, stopAt,
                      Append(hashes, Slice(keys[n], 50, 99)))

\* Database.ForEachBundleTailTransactionHash: the hashes handed to the consumer.
ForEachBundleTailTransactionHash(store, bundleHash, stopAt, maxFind) ==
    ConsumeTails(TailKeys(store, bundleHash), 1, maxFind, stopAt, <<>>)

\* The stores the scans run on: migrated, every assignment of bundles.
ScanStores ==
    {MigrateAll(StoreOf(StoreEntries(bundleOf, {1}, 0, 2, 0, 7))) :
        bundleOf \in [TxIds -> BundleIds]}

Limits == {<<>>} \cup {<<k>> : k \in 0..MaxFind}
ScanBundles == BundleIds \cup {3}

CallBundleTransactionHashes ==
    /\ Admitted
    /\ \E b \in ScanBundles, maxFind \in Limits :
         scan' = [op |-> "BundleTransactionHashes", bundle |-> BundleHash(b),
                  maxFind |-> maxFind, stopAt |-> 0]
                 @@ BundleTransactionHashes(tangle, BundleHash(b), maxFind)
    /\ UNCHANGED <<tangle, migVars, db, once, idle, stack, panicking, ret, returned,
                   ledgerReads>>

CallForEachBundleTailTransactionHash ==
    /\ Admitted
    /\ \E b \in ScanBundles, maxFind \in Limits, stopAt \in 0..2 :
         scan' = [op |-> "ForEachBundleTailTransactionHash", bundle |-> BundleHash(b),
                  maxFind |-> maxFind, stopAt |-> stopAt]
                 @@ ForEachBundleTailTransactionHash(tangle, BundleHash(b), stopAt,
                                                     maxFind)
    /\ UNCHANGED <<tangle, migVars, db, once, idle, stack, panicking, ret, returned,
                   ledgerReads>>

InitScan ==
    /\ tangle \in ScanStores
    /\ MigrationOver
    /\ FacadeIdle

NextScan == CallBundleTransactionHashes \/ CallForEachBundleTailTransactionHash

SpecScan == InitScan /\ [][NextScan]_vars

\* The hashes under a prefix of the bundle-transactions realm, in the order of
\* the store.
HashesUnder(prefix) ==
    LET keys == SortKeys({k \in RealmKeys(tangle, StorePrefixBundleTransactions) :
                            HasPrefix(k, prefix)})
    IN [n \in 1..Len(keys) |-> SubSeq(keys[n], HashSize + 2, 2 * HashSize + 1)]

ScannedPrefix ==
    IF scan.op = "BundleTransactionHashes" THEN scan.bundle
    ELSE scan.bundle \o <<BundleTxIsTail>>

\* C9: BundleTransactionHashes(b, k) returns at most k hashes, exactly the first
\* min(k, n) of the n hashes under b in the order of the store, and all n of
\* them when no limit is given.
C9_CappedResultIsPrefix ==
    scan.op = "BundleTransactionHashes" =>
        LET all == HashesUnder(scan.bundle)
        IN IF scan.maxFind = <<>> THEN scan.hashes = all
           ELSE /\ Len(scan.hashes) <= scan.maxFind[1]
                /\ scan.hashes = SubSeq(all, 1, Min(scan.maxFind[1], Len(all)))

\* A limit of 2 cut a bundle of three transactions.
C9_Witness ==
    /\ scan.op = "BundleTransactionHashes"
    /\ scan.maxFind = <<2>>
    /\ Len(scan.hashes) = 2
    /\ Len(HashesUnder(scan.bundle)) = 3

\* C10 as stated: with a limit k the callback is invoked for at most k keys.
C10_CallbackAtMostLimit ==
    (scan.op # "none" /\ scan.maxFind # <<>>) => scan.visited <= scan.maxFind[1]

\* C10 as amended: with a limit k the callback is invoked for at most k + 1 keys,
\* the key after the k-th being the one at which the scan stops, and at most k
\* hashes are appended or handed to the consumer; a scan the consumer does not
\* stop visits min(n, k + 1) of the n keys under its prefix.
C10_CallbackAtMostLimitPlusOne ==
    (scan.op # "none" /\ scan.maxFind # <<>>) =>
        /\ scan.visited <= scan.maxFind[1] + 1
        /\ Len(scan.hashes) <= scan.maxFind[1]
        /\ scan.stopAt = 0 =>
             scan.visited = Min(Len(HashesUnder(ScannedPrefix)), scan.maxFind[1] + 1)

\* A limit of 1 on a prefix with three keys: two keys were visited.
C10_Witness ==
    /\ scan.op = "BundleTransactionHashes"
    /\ scan.maxFind = <<1>>
    /\ scan.visited = 2
    /\ Len(HashesUnder(scan.bundle)) = 3

\* C23: the hashes BundleTransactionHashes(b) returns without a limit are, as
\* a set, the transactions whose stored bundle hash is b, tails and others,
\* each of them once.
C23_AllTransactionsOfBundle ==
    (scan.op = "BundleTransactionHashes" /\ scan.maxFind = <<>>) =>
        /\ {scan.hashes[n] : n \in 1..Len(scan.hashes)}
             = {txHash \in RealmKeys(tangle, StorePrefixTransactions) :
                  Get(tangle, StorePrefixTransactions, txHash).bundle = scan.bundle}
        /\ \A n, k \in 1..Len(scan.hashes) :
             scan.hashes[n] = scan.hashes[k] => n = k

\* The scan of a bundle with a tail and a transaction that is none, on a store
\* that holds a transaction of another bundle.
C23_Witness ==
    /\ scan.op = "BundleTransactionHashes"
    /\ scan.maxFind = <<>>
    /\ scan.bundle = BundleHash(1)
    /\ Len(scan.hashes) = 2
    /\ \E i, k \in TxIds :
         /\ TxHash(i) = scan.hashes[1] /\ TxHash(k) = scan.hashes[2]
         /\ TxIsTail(Get(tangle, StorePrefixTransactions, TxHash(i)))
              # TxIsTail(Get(tangle, StorePrefixTransactions, TxHash(k)))
    /\ \E i \in TxIds :
         Get(tangle, StorePrefixTransactions, TxHash(i)).bundle = BundleHash(2)

----------------------------------------------------------------------------
\* New, database by database: the tangle, snapshot and spent databases are
\* opened, checked, upgraded and reopened in turn.

DbOrder == <<"tangle", "snapshot", "spent">>
Dbs == {DbOrder[n] : n \in 1..Len(DbOrder)}
GateVersions == (DBVersion - 2)..(DBVersion + 1)
Healths == {"ok", "corrupted", "tainted", "both"}

\* The database the loop of New is at.
Current == DbOrder[gate.idx]

\* The version byte a database holds.
StoredVersion(name) == IF name = "tangle" THEN version ELSE gate.ver[name]

OpenModeAlwaysWritable(readOnly) == "rw"

\* engine.StoreWithDefaultSettings(path, false, engine, readonly, ...).
OpenMode(readOnly) == IF readOnly THEN "ro" ELSE "rw"

HealthErrorIgnoresSkip(skipHealthCheck, health) ==
    IF health \in {"corrupted", "both"} THEN "corrupted"
    ELSE IF health = "tainted" THEN "tainted" ELSE "nil"

\* checkDatabaseVersionAndHealth, before the consumer is called.
HealthError(skipHealthCheck, health) ==
    IF ~skipHealthCheck /\ health \in {"corrupted", "both"} THEN "corrupted"
    ELSE IF ~skipHealthCheck /\ health \in {"tainted", "both"} THEN "tainted"
    ELSE "nil"

\* StoreHealthTracker.CheckCorrectStoreVersion.
CheckCorrectStoreVersion(stored) == stored = DBVersion

upgradeFuncAcceptsAll(name, oldVersion, newVersion) == "nil"
upgradeFuncAcceptsOlder(name, oldVersion, newVersion) ==
    IF newVersion <= DBVersion THEN "nil" ELSE "unsupported"

\* The check every upgradeFunc of New starts with (the tangle's goes on to the
\* pass when it returns nil).
upgradeFunc(name, oldVersion, newVersion) ==
    supportedDatabaseVersionUpgradeFunc(oldVersion, newVersion)

GateStep(pc, event) ==
    [gate EXCEPT !.pc = pc, !.log[Current] = Append(@, event)]
GateFail(err, event) ==
    [gate EXCEPT !.pc = "failed", !.err = err, !.log[Current] = Append(@, event)]

\* The database is opened read-only.
GateOpenReadOnly ==
    /\ gate.pc = "open"
    /\ gate.idx <= Len(DbOrder)
    /\ gate' = [GateStep("check", "openRO") EXCEPT !.mode[Current] = OpenMode(TRUE)]
    /\ UNCHANGED <<tangle, version, phase, iter, cache, innerErr, ctxDone, starts, orig,
                   passes, rerun, observed, faulted, facadeVars>>

\* Health and version are checked; a database of the expected version is done.
GateCheck ==
    /\ gate.pc = "check"
    /\ LET err == HealthError(gate.skip, gate.health[Current])
       IN IF err # "nil"
          THEN /\ gate' = GateFail(err, "check")
               /\ phase' = "failed"
          ELSE /\ phase' = phase
               /\ IF CheckCorrectStoreVersion(StoredVersion(Current))
                  THEN gate' = [GateStep("open", "check") EXCEPT !.idx = @ + 1]
                  ELSE gate' = GateStep("close", "check")
    /\ UNCHANGED <<tangle, version, iter, cache, innerErr, ctxDone, starts, orig,
                   passes, rerun, observed, faulted, facadeVars>>

\* An upgrade is needed: the database is closed
GateClose ==
    /\ gate.pc = "close"
    /\ gate' = [GateStep("reopen", "close") EXCEPT !.mode[Current] = "closed"]
    /\ UNCHANGED <<tangle, version, phase, iter, cache, innerErr, ctxDone, starts, orig,
                   passes, rerun, observed, faulted, facadeVars>>

\* and opened read-write.
GateOpenReadWrite ==
    /\ gate.pc = "reopen"
    /\ gate' = [GateStep("upgrade", "openRW") EXCEPT !.mode[Current] = OpenMode(FALSE)]
    /\ UNCHANGED <<tangle, version, phase, iter, cache, innerErr, ctxDone, starts, orig,
                   passes, rerun, observed, faulted, facadeVars>>

\* Health is checked again and the health tracker calls the upgrade function
\* for the step from the stored version to the next; the tangle's starts the pass.
GateUpgrade ==
    /\ gate.pc = "upgrade"
    /\ LET herr == HealthError(gate.skip, gate.health[Current])
           uerr == upgradeFunc(Current, StoredVersion(Current),
                               StoredVersion(Current) + 1)
       IN IF herr # "nil" \/ uerr # "nil"
          THEN /\ gate' = GateFail(IF herr # "nil" THEN herr ELSE uerr, "upgrade")
               /\ phase' = "failed"
               /\ UNCHANGED <<iter, cache, innerErr, observed, faulted>>
          ELSE IF Current = "tangle"
          THEN /\ gate' = GateStep("pass", "upgrade")
               /\ phase' = "migrating"
               /\ BeginPass
          ELSE /\ gate' = GateStep("persist", "upgrade")
               /\ UNCHANGED <<phase, iter, cache, innerErr, observed, faulted>>
    /\ UNCHANGED <<tangle, version, ctxDone, starts, orig, passes, rerun, facadeVars>>

\* The pass over the tangle database has ended.
GatePassEnd ==
    /\ gate.pc = "pass"
    /\ phase = "migrating"
    /\ iter = <<>>
    /\ IF PassResult(innerErr) = "nil"
       THEN /\ gate' = [gate EXCEPT !.pc = "persist"]
            /\ phase' = "opening"
            /\ passes' = passes + 1
       ELSE /\ gate' = [gate EXCEPT !.pc = "failed", !.err = PassResult(innerErr)]
            /\ phase' = "failed"
            /\ UNCHANGED passes
    /\ UNCHANGED <<tangle, version, iter, cache, innerErr, ctxDone, starts, orig, rerun,
                   observed, faulted, facadeVars>>

\* The health tracker stores the new version.
GatePersist ==
    /\ gate.pc = "persist"
    /\ LET new == VersionAfterUpgrade(StoredVersion(Current), "nil")
       IN IF Current = "tangle"
          THEN /\ version' = new
               /\ gate' = GateStep("close2", "persist")
          ELSE /\ version' = version
               /\ gate' = [GateStep("close2", "persist") EXCEPT !.ver[Current] = new]
    /\ UNCHANGED <<tangle, phase, iter, cache, innerErr, ctxDone, starts, orig, passes,
                   rerun, observed, faulted, facadeVars>>

\* The upgraded database is closed
GateCloseUpgraded ==
    /\ gate.pc = "close2"
    /\ gate' = [GateStep("reopen2", "close") EXCEPT !.mode[Current] = "closed"]
    /\ UNCHANGED <<tangle, version, phase, iter, cache, innerErr, ctxDone, starts, orig,
                   passes, rerun, observed, faulted, facadeVars>>

\* and opened read-only again; the loop goes to the next database.
GateReopenReadOnly ==
    /\ gate.pc = "reopen2"
    /\ gate' = [GateStep("open", "openRO") EXCEPT !.mode[Current] = OpenMode(TRUE),
                                                  !.idx = @ + 1]
    /\ UNCHANGED <<tangle, version, phase, iter, cache, innerErr, ctxDone, starts, orig,
                   passes, rerun, observed, faulted, facadeVars>>

\* After the loop the Database object is constructed and returned.
GateReturn ==
    /\ gate.pc = "open"
    /\ gate.idx > Len(DbOrder)
    /\ gate' = [gate EXCEPT !.pc = "returned"]
    /\ phase' = "ready"
    /\ UNCHANGED <<tangle, version, iter, cache, innerErr, ctxDone, starts, orig, passes,
                   rerun, observed, faulted, facadeVars>>

\* The tangle databases New is started on: of the old layout below version 3,
\* migrated from version 3 on; a payload may be missing.
GateStores(v) ==
    {IF v < DBVersion THEN legacy ELSE MigrateAll(legacy) :
        legacy \in {StoreOf(StoreEntries([i \in TxIds |-> 1], {1}, 0, 2, missing, 7)) :
                       missing \in IF v < DBVersion THEN {0, 2} ELSE {0}}}

InitNew ==
    /\ version \in GateVersions
    /\ tangle \in GateStores(version)
    /\ phase = "opening"
    /\ iter = <<>>
    /\ cache = <<>>
    /\ innerErr = "nil"
    /\ ctxDone = FALSE
    /\ starts = 1
    /\ orig = tangle
    /\ passes = 0
    /\ rerun = NoRerun
    /\ observed = FALSE
    /\ faulted = FALSE
    /\ \E ver \in [Dbs \ {"tangle"} -> GateVersions], skip \in BOOLEAN,
          health \in {h \in [Dbs -> Healths] :
                        Cardinality({d \in Dbs : h[d] # "ok"}) <= 1} :
         gate = [idx |-> 1, pc |-> "open", mode |-> [d \in Dbs |-> "closed"],
                 ver |-> ver, ver0 |-> ver @@ [tangle |-> version],
                 health |-> health, skip |-> skip, err |-> "nil",
                 log |-> [d \in Dbs |-> <<>>]]
    /\ FacadeIdle

NextNew ==
    \/ GateOpenReadOnly
    \/ GateCheck
    \/ GateClose
    \/ GateOpenReadWrite
    \/ GateUpgrade
    \/ MigrateRecord
    \/ GatePassEnd
    \/ GatePersist
    \/ GateCloseUpgraded
    \/ GateReopenReadOnly
    \/ GateReturn
    \/ CallBundleTransactionHashes

SpecNew == InitNew /\ [][NextNew]_vars

----------------------------------------------------------------------------
\* Properties of New.

IndexOf(name) == CHOOSE n \in 1..Len(DbOrder) : DbOrder[n] = name
IsPrefix(a, b) == Len(a) <= Len(b) /\ a = SubSeq(b, 1, Len(a))
FailedAt(name) == gate.pc = "failed" /\ Current = name
Healthy(name) == HealthError(gate.skip, gate.health[name]) = "nil"

\* What New does to a database that needs no upgrade, and to one it upgrades.
CheckedLog == <<"openRO", "check">>
UpgradedLog == <<"openRO", "check", "close", "openRW", "upgrade", "persist", "close",
                 "openRO">>

\* C13: a database whose stored version is above DBVersion is never upgraded:
\* its version and (for the tangle) its records stay as they were, New does not
\* get past it nor return a Database, and when New fails at it without a health
\* finding the error is the unsupported-version error.
C13_NewerVersionRejected ==
    \A d \in Dbs :
        gate.ver0[d] > DBVersion =>
            /\ StoredVersion(d) = gate.ver0[d]
            /\ phase # "ready"
            /\ gate.idx <= IndexOf(d)
            /\ d = "tangle" => tangle = orig
            /\ (FailedAt(d) /\ Healthy(d)) => gate.err = "unsupported"

\* New upgraded the tangle database and failed at the snapshot database of
\* version 4, which it had reopened read-write.
C13_Witness ==
    /\ FailedAt("snapshot")
    /\ gate.err = "unsupported"
    /\ gate.ver0["snapshot"] = DBVersion + 1
    /\ gate.log["tangle"] = UpgradedLog
    /\ gate.mode["snapshot"] = "rw"

\* C14: a database whose stored version is neither 2 nor 3 keeps its version,
\* New fails at it with the unsupported-version error and no pass starts; the
\* only change of a stored version is from 2 to 3.
C14_OnlyTwoToThree ==
    /\ [](\A d \in Dbs :
            gate.ver0[d] \notin {2, 3} =>
                /\ StoredVersion(d) = gate.ver0[d]
                /\ phase # "ready"
                /\ gate.idx <= IndexOf(d)
                /\ d = "tangle" => (tangle = orig /\ phase # "migrating" /\ passes = 0)
                /\ (FailedAt(d) /\ Healthy(d)) => gate.err = "unsupported")
    /\ [][\A d \in Dbs :
            StoredVersion(d)' # StoredVersion(d)
                => (StoredVersion(d) = 2 /\ StoredVersion(d)' = 3)]_vars

\* New failed at the tangle database of version 1 before any pass.
C14_Witness ==
    /\ FailedAt("tangle")
    /\ gate.err = "unsupported"
    /\ gate.ver0["tangle"] = 1
    /\ gate.log["tangle"] = <<"openRO", "check", "close", "openRW", "upgrade">>

\* C15: without skipHealthCheck a corrupted or tainted database stops New at its
\* first check, whatever its version: it is never closed, reopened or
\* upgraded, and the error is the health finding; with skipHealthCheck New
\* never fails with a health finding.
C15_HealthCheckedFirst ==
    /\ \A d \in Dbs :
         (~gate.skip /\ gate.health[d] # "ok") =>
             /\ IsPrefix(gate.log[d], CheckedLog)
             /\ gate.idx <= IndexOf(d)
             /\ StoredVersion(d) = gate.ver0[d]
             /\ phase # "ready"
             /\ FailedAt(d) =>
                  gate.err = IF gate.health[d] = "tainted" THEN "tainted"
                             ELSE "corrupted"
    /\ gate.skip => gate.err \notin {"corrupted", "tainted"}

\* New failed at the first check of the tainted spent database of version 2.
C15_Witness ==
    /\ FailedAt("spent")
    /\ ~gate.skip
    /\ gate.err = "tainted"
    /\ gate.ver0["spent"] = 2
    /\ gate.log["spent"] = CheckedLog
    /\ gate.mode["spent"] = "ro"

\* C16: what New has done to a database is a prefix of open read-only, check,
\* close, open read-write, upgrade, persist, close, open read-only; the database
\* is open read-write exactly from the fourth to the sixth of these steps and the
\* version changes at the sixth; when New has returned the Database every
\* database is open read-only at version DBVersion, those that were below it
\* having gone through all eight steps.
C16_OpenCheckUpgradeOrder ==
    /\ \A d \in Dbs :
         /\ IsPrefix(gate.log[d], UpgradedLog)
         /\ gate.ver0[d] = DBVersion => IsPrefix(gate.log[d], CheckedLog)
         /\ gate.mode[d] = "rw" <=> Len(gate.log[d]) \in 4..6
         /\ gate.mode[d] = "ro" <=> Len(gate.log[d]) \in {1, 2, 8}
         /\ StoredVersion(d) # gate.ver0[d] <=> Len(gate.log[d]) >= 6
    /\ phase = "ready" =>
         \A d \in Dbs :
             /\ gate.mode[d] = "ro"
             /\ StoredVersion(d) = DBVersion
             /\ gate.log[d] = IF gate.ver0[d] < DBVersion THEN UpgradedLog
                              ELSE CheckedLog

\* New returned after upgrading the tangle and spent databases.
C16_Witness ==
    /\ phase = "ready"
    /\ gate.log["tangle"] = UpgradedLog
    /\ gate.log["snapshot"] = CheckedLog
    /\ gate.log["spent"] = UpgradedLog

\* C17: a facade operation has run only after New returned the Database, with
\* every database open read-only and no pass running; the tangle store changes
\* only during the pass, with the tangle database open read-write and no
\* facade operation started.
C17_NoReaderBeforeReturn ==
    /\ [](scan.op # "none" =>
            /\ gate.pc = "returned"
            /\ phase = "ready"
            /\ iter = <<>>
            /\ \A d \in Dbs : gate.mode[d] = "ro")
    /\ [][scan' # scan =>
            (gate.pc = "returned" /\ \A d \in Dbs : gate.mode[d] = "ro")]_vars
    /\ [][tangle' # tangle =>
            /\ phase = "migrating"
            /\ gate.mode["tangle"] = "rw"
            /\ scan.op = "none"
            /\ idle = Callers]_vars

\* A scan ran on the tangle database New had migrated.
C17_Witness ==
    /\ scan.op = "BundleTransactionHashes"
    /\ gate.log["tangle"] = UpgradedLog
    /\ passes = 1

----------------------------------------------------------------------------
\* The query facade and the errors of the key-value engine.

\* The error a Get of the engine returns: the engine fails, or the key is absent.
GetError(store, realm, key, fails) ==
    IF fails THEN "engine"
    ELSE IF Has(store, realm, key) THEN "nil" ELSE "ErrKeyNotFound"

OrNilPanicsOnNotFound(err) == IF err = "nil" THEN "value" ELSE "panic"

\* The error branch of MilestoneOrNil and TxMetadataOrNil: ErrKeyNotFound gives
\* nil, every other error panics.
OrNil(err) ==
    IF err = "nil" THEN "value"
    ELSE IF err = "ErrKeyNotFound" THEN "nil" ELSE "panic"

\* A point lookup whose Get returned err: how the call ends and what it returns.
Lookup(err, value) ==
    [engineErr |-> err = "engine",
     outcome |-> IF OrNil(err) = "panic" THEN "panic" ELSE "return",
     result |-> IF OrNil(err) = "value" THEN value ELSE Nil]

\* Database.TxMetadataOrNil on a store of the current layout.
TxMetadataOrNil(store, txHash) ==
    IF ~Has(store, StorePrefixTransactionMetadata, txHash) THEN Nil
    ELSE Some(Unmarshal(Get(store, StorePrefixTransactionMetadata, txHash)))

\* TransactionMetadata.ConfirmedWithIndex.
ConfirmedWithIndex(m) ==
    <<HasBit(m.metadata, TransactionMetadataConfirmed), m.confirmationIndex>>

\* The keys IterateKeys hands to its callback when the engine fails at position
\* failAt of the iteration (0: it does not fail).
Delivered(keys, failAt) ==
    IF failAt = 0 THEN keys ELSE SubSeq(keys, 1, Min(failAt - 1, Len(keys)))

\* The callback returned false on one of the keys, which ends the iteration.
Stopped(keys, maxFind) == \E n \in 1..Len(keys) : CapReached(n, maxFind)

\* What the prefix scans do with the error IterateKeys returned: it is assigned
\* to the blank identifier and the call returns.
ScanOutcome(err) == "return"

\* Database.TransactionOrNil.
TransactionOrNil(store, txHash) ==
    IF ~Has(store, StorePrefixTransactions, txHash) THEN Nil
    ELSE Some(Get(store, StorePrefixTransactions, txHash))

MilestoneTimestampIgnoresMissingTail(store, milestoneIndex) ==
    LET ms == MilestoneOrNil(store, milestoneIndex)
    IN IF ms.nil THEN [timestamp |-> 0, err |-> "milestoneNotFound"]
       ELSE IF TransactionOrNil(store, ms.v.Hash).nil
       THEN [timestamp |-> 0, err |-> "nil"]
       ELSE [timestamp |-> TransactionOrNil(store, ms.v.Hash).v.timestamp,
             err |-> "nil"]

\* Database.MilestoneTimestamp: <<timestamp, error>>.
MilestoneTimestamp(store, milestoneIndex) ==
    LET ms == MilestoneOrNil(store, milestoneIndex)
    IN IF ms.nil THEN [timestamp |-> 0, err |-> "milestoneNotFound"]
       ELSE LET tx == TransactionOrNil(store, ms.v.Hash)
            IN IF tx.nil THEN [timestamp |-> 0, err |-> "tailNotFound"]
               ELSE [timestamp |-> tx.v.timestamp, err |-> "nil"]

\* A store whose payload of transaction i has been lost (0: of none).
WithoutPayload(store, i) ==
    [k \in DOMAIN store \ {<<StorePrefixTransactions>> \o TxHash(i)} |-> store[k]]

LookupIndexes == {7, 8, 9}
LookupHashes == {TxHash(i) : i \in 1..(NumTx + 1)}
FailAts == 0..2

\* The stores the lookups run on: migrated, with no, one or two milestones,
\* and the bundle of the first tail present or absent.
LookupStores ==
    {WithoutPayload(
         MigrateAll(StoreOf(StoreEntries([i \in TxIds |-> 1], tagged, noBundle, 2, 0,
                                         7))), lost) :
        tagged \in {{}, {1}, {1, 3}}, noBundle \in {0, 1}, lost \in {0, 3}}

CallMilestoneOrNil ==
    /\ Admitted
    /\ \E i \in LookupIndexes, fails \in BOOLEAN :
         scan' = [op |-> "MilestoneOrNil", index |-> i]
                 @@ Lookup(GetError(tangle, StorePrefixMilestones,
                                    databaseKeyForMilestoneIndex(i), fails),
                           MilestoneOrNil(tangle, i))
    /\ UNCHANGED <<tangle, migVars, db, once, idle, stack, panicking, ret, returned,
                   ledgerReads>>

CallTxMetadataOrNil ==
    /\ Admitted
    /\ \E txHash \in LookupHashes, fails \in BOOLEAN :
         scan' = [op |-> "TxMetadataOrNil", txHash |-> txHash]
                 @@ Lookup(GetError(tangle, StorePrefixTransactionMetadata, txHash,
                                    fails),
                           TxMetadataOrNil(tangle, txHash))
    /\ UNCHANGED <<tangle, migVars, db, once, idle, stack, panicking, ret, returned,
                   ledgerReads>>

\* MilestoneBundleOrNil: the Get of the milestone, then the Get of the bundle of
\* its hash; failGet is the Get at which the engine fails (0: at none).
CallMilestoneBundleOrNil ==
    /\ Admitted
    /\ \E i \in LookupIndexes, failGet \in 0..2 :
         LET ms == Lookup(GetError(tangle, StorePrefixMilestones,
                                   databaseKeyForMilestoneIndex(i), failGet = 1),
                          MilestoneOrNil(tangle, i))
             bundle == IF ms.outcome = "panic" \/ ms.result.nil THEN ms
                       ELSE Lookup(GetError(tangle, StorePrefixBundles,
                                            databaseKeyForBundle(ms.result.v.Hash),
                                            failGet = 2),
                                   BundleOrNil(tangle, ms.result.v.Hash))
         IN scan' = [op |-> "MilestoneBundleOrNil", index |-> i] @@ bundle
    /\ UNCHANGED <<tangle, migVars, db, once, idle, stack, panicking, ret, returned,
                   ledgerReads>>

\* BundleTransactionHashes on an engine whose iteration may fail.
FailingBundleTransactionHashes ==
    /\ Admitted
    /\ \E b \in ScanBundles, maxFind \in Limits, failAt \in FailAts :
         LET keys == Delivered(IterateKeys(tangle, StorePrefixBundleTransactions,
                                           databaseKeyPrefixForBundleHash(
                                               BundleHash(b))), failAt)
             err == IF failAt # 0 /\ ~Stopped(keys, maxFind) THEN "engine" ELSE "nil"
         IN scan' = [op |-> "FailingBundleTransactionHashes",
                     bundle |-> BundleHash(b), maxFind |-> maxFind,
                     engineErr |-> err = "engine", outcome |-> ScanOutcome(err)]
                    @@ CollectHashes(keys, 1, maxFind, <<>>)
    /\ UNCHANGED <<tangle, migVars, db, once, idle, stack, panicking, ret, returned,
                   ledgerReads>>

\* ForEachBundleTailTransactionHash on an engine whose iteration may fail, with
\* a consumer that always returns true.
FailingForEachBundleTailTransactionHash ==
    /\ Admitted
    /\ \E b \in ScanBundles, maxFind \in Limits, failAt \in FailAts :
         LET keys == Delivered(TailKeys(tangle, BundleHash(b)), failAt)
             err == IF failAt # 0 /\ ~Stopped(keys, maxFind) THEN "engine" ELSE "nil"
         IN scan' = [op |-> "FailingForEachBundleTailTransactionHash",
                     bundle |-> BundleHash(b), maxFind |-> maxFind,
                     engineErr |-> err = "engine", outcome |-> ScanOutcome(err)]
                    @@ ConsumeTails(keys, 1, maxFind, 0, <<>>)
    /\ UNCHANGED <<tangle, migVars, db, once, idle, stack, panicking, ret, returned,
                   ledgerReads>>

CallMilestoneTimestamp ==
    /\ Admitted
    /\ \E i \in LookupIndexes :
         scan' = [op |-> "MilestoneTimestamp", index |-> i, engineErr |-> FALSE,
                  outcome |-> "return"] @@ MilestoneTimestamp(tangle, i)
    /\ UNCHANGED <<tangle, migVars, db, once, idle, stack, panicking, ret, returned,
                   ledgerReads>>

InitLookup ==
    /\ tangle \in LookupStores
    /\ MigrationOver
    /\ FacadeIdle

NextLookup ==
    \/ CallMilestoneOrNil
    \/ CallTxMetadataOrNil
    \/ CallMilestoneBundleOrNil
    \/ CallMilestoneTimestamp
    \/ FailingBundleTransactionHashes
    \/ FailingForEachBundleTailTransactionHash

SpecLookup == InitLookup /\ [][NextLookup]_vars

\* C18: every facade operation during which the engine returned an error other
\* than key-not-found ends in a failure; none returns a result after it.
C18_EngineErrorSurfaced ==
    (scan.op # "none" /\ scan.engineErr) => scan.outcome = "panic"

\* The milestone record of index i is absent, or the bundle of its hash is.
MilestoneOrBundleAbsent(i) ==
    \/ ~Has(tangle, StorePrefixMilestones, databaseKeyForMilestoneIndex(i))
    \/ ~Has(tangle, StorePrefixBundles,
            SubSeq(Get(tangle, StorePrefixMilestones,
                       databaseKeyForMilestoneIndex(i)), 1, HashSize))

\* C20: with no engine error, MilestoneOrNil and TxMetadataOrNil of an absent
\* key return nil without failing, and MilestoneBundleOrNil(i) returns without
\* failing, nil exactly when milestone i or the bundle of its tail hash is
\* absent.
C20_AbsentKeyIsNil ==
    /\ (/\ scan.op = "MilestoneOrNil"
        /\ ~scan.engineErr
        /\ ~Has(tangle, StorePrefixMilestones,
                databaseKeyForMilestoneIndex(scan.index)))
       => (scan.outcome = "return" /\ scan.result.nil)
    /\ (/\ scan.op = "TxMetadataOrNil"
        /\ ~scan.engineErr
        /\ ~Has(tangle, StorePrefixTransactionMetadata, scan.txHash))
       => (scan.outcome = "return" /\ scan.result.nil)
    /\ (scan.op = "MilestoneBundleOrNil" /\ ~scan.engineErr)
       => /\ scan.outcome = "return"
          /\ scan.result.nil <=> MilestoneOrBundleAbsent(scan.index)

\* MilestoneBundleOrNil has returned nil for a milestone that is present and
\* whose bundle is absent.
C20_Witness ==
    /\ scan.op = "MilestoneBundleOrNil"
    /\ ~scan.engineErr
    /\ Has(tangle, StorePrefixMilestones, databaseKeyForMilestoneIndex(scan.index))
    /\ MilestoneOrBundleAbsent(scan.index)
    /\ scan.outcome = "return"
    /\ scan.result.nil

\* C21: MilestoneTimestamp(i) returns an error when milestone i is absent or
\* the transaction under the milestone's tail hash is absent; otherwise it
\* returns the timestamp of that transaction and no error.
C21_TimestampOrError ==
    scan.op = "MilestoneTimestamp" =>
        LET key == databaseKeyForMilestoneIndex(scan.index)
            tail == SubSeq(Get(tangle, StorePrefixMilestones, key), 1, HashSize)
        IN IF ~Has(tangle, StorePrefixMilestones, key) THEN scan.err # "nil"
           ELSE IF ~Has(tangle, StorePrefixTransactions, tail) THEN scan.err # "nil"
           ELSE /\ scan.err = "nil"
                /\ scan.timestamp
                     = Get(tangle, StorePrefixTransactions, tail).timestamp

\* MilestoneTimestamp(9) has failed on a store that holds milestone 9 and has
\* lost the payload of its tail.
C21_Witness ==
    /\ scan.op = "MilestoneTimestamp"
    /\ scan.index = 9
    /\ Has(tangle, StorePrefixMilestones, databaseKeyForMilestoneIndex(9))
    /\ ~Has(tangle, StorePrefixTransactions, TxHash(3))
    /\ scan.err = "tailNotFound"

C33_FailedNewLeavesNoStoreOpen ==
    gate.pc = "failed" => \A name \in Dbs : gate.mode[name] = "closed"

\* C34: the hashes ForEachBundleTailTransactionHash(b, visit, k) hands to visit
\* are 49 bytes long and are the first hashes under b with isTail = 1, in the
\* order of the store: as many as there are, at most k when a limit is given,
\* and none after the call at which visit returned false.
C34_VisitsTailsInOrderUntilStopped ==
    scan.op = "ForEachBundleTailTransactionHash" =>
        LET tails == HashesUnder(scan.bundle \o <<BundleTxIsTail>>)
            cap   == IF scan.maxFind = <<>> THEN Len(tails) ELSE scan.maxFind[1]
            stop  == IF scan.stopAt = 0 THEN Len(tails) ELSE scan.stopAt
        IN /\ scan.hashes = SubSeq(tails, 1, Min(Len(tails), Min(cap, stop)))
           /\ \A n \in 1..Len(scan.hashes) :
                /\ Len(scan.hashes[n]) = 49
                /\ Has(tangle, StorePrefixTransactions, scan.hashes[n])
                /\ TxIsTail(Get(tangle, StorePrefixTransactions, scan.hashes[n]))
                /\ Get(tangle, StorePrefixTransactions, scan.hashes[n]).bundle
                     = scan.bundle

\* visit returned false at its first call, under a limit of 2, on a bundle
\* with two tails and a transaction that is none.
C34_Witness ==
    /\ scan.op = "ForEachBundleTailTransactionHash"
    /\ scan.stopAt = 1
    /\ scan.maxFind = <<2>>
    /\ Len(scan.hashes) = 1
    /\ Len(HashesUnder(scan.bundle \o <<BundleTxIsTail>>)) = 2
    /\ Len(HashesUnder(scan.bundle)) = 3

----------------------------------------------------------------------------
\* The record codec on its own: a metadata value is marshalled and the bytes
\* are unmarshalled into a fresh value.

CodecMasks == {0, 66, 255}
CodecIndexes == {0, 1, 258, 16777221}
CodecHashes == {HashOf(1), [k \in 1..HashSize |-> k], <<>>,
                [k \in 1..HashSize + 1 |-> 100 + k]}

CallMarshal ==
    /\ scan.op = "input"
    /\ scan' = [op |-> "Marshal", m |-> scan.m, data |-> Marshal(scan.m)]
    /\ UNCHANGED <<tangle, migVars, db, once, idle, stack, panicking, ret, returned,
                   ledgerReads>>

CallUnmarshal ==
    /\ scan.op = "Marshal"
    /\ scan' = [op |-> "Unmarshal", m |-> scan.m, data |-> scan.data,
                out |-> Unmarshal(scan.data)]
    /\ UNCHANGED <<tangle, migVars, db, once, idle, stack, panicking, ret, returned,
                   ledgerReads>>

InitCodec ==
    /\ tangle = CHOOSE store \in LookupStores : TRUE
    /\ MigrationOver
    /\ db = [ledgerMilestoneIndex |-> 0, latestSolidMilestoneBundle |-> Nil,
             syncState |-> Nil]
    /\ once = [o \in Onces |-> [done |-> FALSE, holder |-> 0]]
    /\ idle = Callers
    /\ stack = [p \in Callers |-> <<>>]
    /\ panicking = {}
    /\ ret = [p \in Callers |-> Nil]
    /\ returned = {}
    /\ ledgerReads = 0
    /\ \E metadata \in CodecMasks, confirmationIndex, milestoneIndex \in CodecIndexes,
          trunkHash, branchHash, bundleHash \in CodecHashes :
         scan = [op |-> "input",
                 m |-> [metadata |-> metadata, confirmationIndex |-> confirmationIndex,
                        trunkHash |-> trunkHash, branchHash |-> branchHash,
                        bundleHash |-> bundleHash, milestoneIndex |-> milestoneIndex]]

NextCodec == CallMarshal \/ CallUnmarshal

SpecCodec == InitCodec /\ [][NextCodec]_vars

\* C35: Marshal produces exactly 156 bytes: the bitmask, the confirmation index
\* in 4 bytes little-endian, trunk, branch and bundle hash in 49 bytes each and
\* the milestone index in 4 bytes little-endian; and unmarshalling the bytes of
\* a value whose three hashes are 49 bytes long gives back its bitmask, both
\* indices and the three hashes.
C35_MarshalLayoutAndRoundTrip ==
    /\ scan.op \in {"Marshal", "Unmarshal"} =>
         /\ Len(scan.data) = 156
         /\ scan.data[1] = scan.m.metadata
         /\ \A k \in 0..3 :
              /\ scan.data[2 + k] = (scan.m.confirmationIndex \div Pow256(k)) % 256
              /\ scan.data[153 + k] = (scan.m.milestoneIndex \div Pow256(k)) % 256
         /\ \A k \in 1..49 :
              /\ k <= Len(scan.m.trunkHash) => scan.data[5 + k] = scan.m.trunkHash[k]
              /\ k <= Len(scan.m.branchHash) => scan.data[54 + k] = scan.m.branchHash[k]
              /\ k <= Len(scan.m.bundleHash) => scan.data[103 + k] = scan.m.bundleHash[k]
    /\ (/\ scan.op = "Unmarshal"
        /\ Len(scan.m.trunkHash) = 49
        /\ Len(scan.m.branchHash) = 49
        /\ Len(scan.m.bundleHash) = 49) => scan.out = scan.m

\* A value with two different indices above one byte and hashes of 49 bytes went through Marshal and Unmarshal.
C35_Witness ==
    /\ scan.op = "Unmarshal"
    /\ scan.m.confirmationIndex = 16777221
    /\ scan.m.milestoneIndex = 258
    /\ scan.m.metadata = 66
    /\ scan.m.trunkHash = HashOf(1)
    /\ scan.m.branchHash = [k \in 1..HashSize |-> k]
    /\ scan.m.bundleHash = HashOf(1)
    /\ scan.out = scan.m

----------------------------------------------------------------------------
\* The handlers of the HTTP server over the query facade.

MaxHashes == 3

\* TransactionMetadata.IsSolid / IsConfirmed / IsConflicting / IsMilestone.
IsSolid(m) == HasBit(m.metadata, TransactionMetadataSolid)
IsConfirmed(m) == HasBit(m.metadata, TransactionMetadataConfirmed)
IsConflicting(m) == HasBit(m.metadata, TransactionMetadataConflicting)
IsMilestone(m) == HasBit(m.metadata, TransactionMetadataIsMilestone)

\* guards.IsTransactionHash on the trytes of a request (81 trytes stand for the
\* 49 bytes of a hash), hornet.HashFromHashTrytes, transaction.TransactionToTrytes
\* and strings.Repeat("9", n).
IsTransactionHash(hash) == Len(hash.trytes) = HashSize
HashFromHashTrytes(hash) == hash.trytes
TransactionToTrytes(tx) == [size |-> 2673, nines |-> FALSE, tx |-> tx]
RepeatNine(n) == [size |-> n, nines |-> TRUE]

\* What a handler returns with an error: no response.
Rejected(err, lookups) ==
    [outcome |-> err, trytes |-> <<>>, milestones |-> <<>>, lookups |-> lookups]

\* The second loop of rpcGetTrytes that appends nothing for an unknown
\* transaction.
RECURSIVE GetTrytesSkipsUnknown(_, _, _, _, _)
GetTrytesSkipsUnknown(store, hashes, n, trytes, milestones) ==
    IF n > Len(hashes)
    THEN [outcome |-> "ok", trytes |-> trytes, milestones |-> milestones,
          lookups |-> Len(hashes)]
    ELSE LET txHash == HashFromHashTrytes(hashes[n])
             tx == TransactionOrNil(store, txHash)
             txMetadata == TxMetadataOrNil(store, txHash)
         IN IF tx.nil
            THEN GetTrytesSkipsUnknown(store, hashes, n + 1, trytes, milestones)
            ELSE IF txMetadata.nil THEN Rejected("ErrInternalServerError", n)
            ELSE GetTrytesSkipsUnknown(store, hashes, n + 1,
                     Append(trytes, TransactionToTrytes(tx.v)),
                     Append(milestones, ConfirmedWithIndex(txMetadata.v)[2]))

\* The second loop of rpcGetTrytes from request position n on; lookups counts
\* the hashes the database was asked for.
RECURSIVE GetTrytes(_, _, _, _, _)
GetTrytes(store, hashes, n, trytes, milestones) ==
    IF n > Len(hashes)
    THEN [outcome |-> "ok", trytes |-> trytes, milestones |-> milestones,
          lookups |-> Len(hashes)]
    ELSE LET txHash == HashFromHashTrytes(hashes[n])
             tx == TransactionOrNil(store, txHash)
             txMetadata == TxMetadataOrNil(store, txHash)
         IN IF tx.nil
            THEN GetTrytes(store, hashes, n + 1, Append(trytes, RepeatNine(2673)),
                           Append(milestones, 0))
            ELSE IF txMetadata.nil THEN Rejected("ErrInternalServerError", n)
            ELSE GetTrytes(store, hashes, n + 1,
                           Append(trytes, TransactionToTrytes(tx.v)),
                           Append(milestones, ConfirmedWithIndex(txMetadata.v)[2]))

\* DatabaseServer.rpcGetTrytes on a bound request.
rpcGetTrytes(store, hashes, maxResults) ==
    IF Len(hashes) > maxResults THEN Rejected("ErrInvalidParameter", 0)
    ELSE IF \E n \in 1..Len(hashes) : ~IsTransactionHash(hashes[n])
    THEN Rejected("ErrInvalidParameter", 0)
    ELSE GetTrytes(store, hashes, 1, <<>>, <<>>)

\* rpcGetInclusionStates that reports every confirmed transaction as included.
rpcGetInclusionStatesOfConfirmed(store, transactions) ==
    IF \E n \in 1..Len(transactions) : ~IsTransactionHash(transactions[n])
    THEN [outcome |-> "ErrInvalidParameter", states |-> <<>>]
    ELSE [outcome |-> "ok",
          states |-> [n \in 1..Len(transactions) |->
              LET txMeta == TxMetadataOrNil(store, HashFromHashTrytes(transactions[n]))
              IN IF txMeta.nil THEN FALSE ELSE IsConfirmed(txMeta.v)]]

\* DatabaseServer.rpcGetInclusionStates on a bound request.
rpcGetInclusionStates(store, transactions) ==
    IF \E n \in 1..Len(transactions) : ~IsTransactionHash(transactions[n])
    THEN [outcome |-> "ErrInvalidParameter", states |-> <<>>]
    ELSE [outcome |-> "ok",
          states |-> [n \in 1..Len(transactions) |->
              LET txMeta == TxMetadataOrNil(store, HashFromHashTrytes(transactions[n]))
              IN IF txMeta.nil THEN FALSE
                 ELSE IsConfirmed(txMeta.v) /\ ~IsConflicting(txMeta.v)]]

\* DatabaseServer.transactionMetadata for a parsed hash; ledgerIndex is what
\* Database.LedgerIndex returns.
transactionMetadata(store, txHash, ledgerIndex) ==
    LET txMeta == TxMetadataOrNil(store, txHash)
        cwi == ConfirmedWithIndex(txMeta.v)
        referencedByMilestoneIndex == IF cwi[1] THEN cwi[2] ELSE 0
        timestamp == MilestoneTimestamp(store, referencedByMilestoneIndex)
    IN IF txMeta.nil
       THEN [TxHash |-> Trytes(txHash), Solid |-> FALSE, Included |-> FALSE,
             Confirmed |-> FALSE, Conflicting |-> FALSE,
             ReferencedByMilestoneIndex |-> 0, MilestoneTimestampReferenced |-> 0,
             MilestoneIndex |-> 0, LedgerIndex |-> ledgerIndex]
       ELSE [TxHash |-> Trytes(txHash), Solid |-> IsSolid(txMeta.v),
             Included |-> cwi[1] /\ ~IsConflicting(txMeta.v),
             Confirmed |-> cwi[1], Conflicting |-> IsConflicting(txMeta.v),
             ReferencedByMilestoneIndex |-> referencedByMilestoneIndex,
             MilestoneTimestampReferenced |->
                 IF cwi[1] /\ timestamp.err = "nil" THEN timestamp.timestamp ELSE 0,
             MilestoneIndex |-> IF IsMilestone(txMeta.v) THEN txMeta.v.milestoneIndex
                                ELSE 0,
             LedgerIndex |-> ledgerIndex]

\* The stores the handlers run on: migrated stores in which transaction 2 has
\* its metadata, has lost it, or has the record a pass repeated after an
\* aborted one leaves (Confirmed clear, confirmation index from the trunk hash).
WithMetadataOf2(store, how) ==
    LET key == <<StorePrefixTransactionMetadata>> \o TxHash(2)
    IN IF how = "lost" THEN [k \in DOMAIN store \ {key} |-> store[k]]
       ELSE IF how = "stale"
       THEN [store EXCEPT ![key] =
                Marshal([Unmarshal(@) EXCEPT
                           !.metadata = ModifyBit(@, TransactionMetadataConfirmed, FALSE),
                           !.confirmationIndex = Uint32(SubSeq(TxHash(1), 1, 4))])]
       ELSE store

ServerStores ==
    {WithMetadataOf2(
         MigrateAll(StoreOf(StoreEntries([i \in TxIds |-> 1], tagged, 0, nConf, 0, 7))),
         how) :
        tagged \in {{}, {1}}, nConf \in {1, 3}, how \in {"kept", "lost", "stale"}}

\* The requests: known hashes, an unknown one and one that is no hash.
RequestHashes ==
    {Trytes(TxHash(1)), Trytes(TxHash(2)), Trytes(TxHash(3)), Trytes(TxHash(NumTx + 1)),
     Trytes(<<1, 2>>)}
Requests == UNION {[1..n -> RequestHashes] : n \in 0..MaxHashes}

CallRpcGetTrytes ==
    /\ Admitted
    /\ scan = NoScan
    /\ \E hashes \in Requests, maxResults \in 1..MaxHashes :
         scan' = [op |-> "rpcGetTrytes", request |-> hashes,
                  maxResults |-> maxResults] @@ rpcGetTrytes(tangle, hashes, maxResults)
    /\ UNCHANGED <<tangle, migVars, db, once, idle, stack, panicking, ret, returned,
                   ledgerReads>>

CallRpcGetInclusionStates ==
    /\ Admitted
    /\ scan = NoScan
    /\ \E transactions \in Requests :
         scan' = [op |-> "rpcGetInclusionStates", request |-> transactions]
                 @@ rpcGetInclusionStates(tangle, transactions)
    /\ UNCHANGED <<tangle, migVars, db, once, idle, stack, panicking, ret, returned,
                   ledgerReads>>

CallTransactionMetadata ==
    /\ Admitted
    /\ scan = NoScan
    /\ \E i \in 1..(NumTx + 1) :
         scan' = [op |-> "transactionMetadata", txHash |-> TxHash(i),
                  response |-> transactionMetadata(tangle, TxHash(i),
                      milestoneIndexFromBytes(Get(tangle, StorePrefixLedgerState,
                                                  ledgerMilestoneIndexKey)))]
    /\ UNCHANGED <<tangle, migVars, db, once, idle, stack, panicking, ret, returned,
                   ledgerReads>>

\* The handler has returned and the response has been written.
Respond ==
    /\ scan.op \in {"rpcGetTrytes", "rpcGetInclusionStates", "transactionMetadata"}
    /\ scan' = NoScan
    /\ UNCHANGED <<tangle, migVars, db, once, idle, stack, panicking, ret, returned,
                   ledgerReads>>

InitServer ==
    /\ tangle \in ServerStores
    /\ MigrationOver
    /\ FacadeIdle

NextServer ==
    \/ CallRpcGetTrytes
    \/ CallRpcGetInclusionStates
    \/ CallTransactionMetadata
    \/ Respond

SpecServer == InitServer /\ [][NextServer]_vars

\* A request hash of a transaction the store has no payload of / has a payload
\* but no metadata of.
UnknownTx(hash) == ~Has(tangle, StorePrefixTransactions, HashFromHashTrytes(hash))
WithoutMetadata(hash) ==
    /\ ~UnknownTx(hash)
    /\ ~Has(tangle, StorePrefixTransactionMetadata, HashFromHashTrytes(hash))

\* C36: rpcGetTrytes rejects a request with more hashes than the maximum or
\* with an invalid hash before it has looked anything up; a request it answers
\* gets Trytes and Milestones of the request's length, position n answering
\* hash n, with 2673 nines and milestone 0 for an unknown transaction; a valid
\* request with a known transaction that has no metadata fails as a whole.
C36_GetTrytesValidatesThenAnswersEach ==
    scan.op = "rpcGetTrytes" =>
        LET req == scan.request
            invalid == \/ Len(req) > scan.maxResults
                       \/ \E n \in 1..Len(req) : Len(req[n].trytes) # 49
        IN /\ invalid => (scan.outcome = "ErrInvalidParameter" /\ scan.lookups = 0)
           /\ (~invalid /\ \E n \in 1..Len(req) : WithoutMetadata(req[n])) =>
                /\ scan.outcome = "ErrInternalServerError"
                /\ scan.trytes = <<>> /\ scan.milestones = <<>>
           /\ (~invalid /\ \A n \in 1..Len(req) : ~WithoutMetadata(req[n])) =>
                scan.outcome = "ok"
           /\ scan.outcome = "ok" =>
                /\ Len(scan.trytes) = Len(req)
                /\ Len(scan.milestones) = Len(req)
                /\ \A n \in 1..Len(req) :
                     IF UnknownTx(req[n])
                     THEN /\ scan.trytes[n].nines
                          /\ scan.trytes[n].size = 2673
                          /\ scan.milestones[n] = 0
                     ELSE /\ ~scan.trytes[n].nines
                          /\ scan.trytes[n].tx
                               = Get(tangle, StorePrefixTransactions, req[n].trytes)

\* A request for an unknown transaction, then a known one, then the unknown
\* one again was answered.
C36_Witness ==
    /\ scan.op = "rpcGetTrytes"
    /\ scan.outcome = "ok"
    /\ scan.request = <<Trytes(TxHash(NumTx + 1)), Trytes(TxHash(1)),
                        Trytes(TxHash(NumTx + 1))>>
    /\ scan.milestones[2] # 0

\* The stored metadata record of a hash has the Confirmed bit set and the
\* Conflicting bit clear.
StoredAsIncluded(txHash) ==
    /\ Has(tangle, StorePrefixTransactionMetadata, txHash)
    /\ HasBit(Get(tangle, StorePrefixTransactionMetadata, txHash)[1], 1)
    /\ ~HasBit(Get(tangle, StorePrefixTransactionMetadata, txHash)[1], 2)

\* C37: rpcGetInclusionStates answers a valid request with one state per
\* transaction in request order, true exactly for the transactions whose
\* metadata has Confirmed set and Conflicting clear and false for an unknown
\* one; transactionMetadata reports Included under the same condition, a
\* non-zero ReferencedByMilestoneIndex only with the Confirmed bit and a
\* non-zero MilestoneIndex only with the IsMilestone bit.
C37_IncludedIffConfirmedNotConflicting ==
    /\ (/\ scan.op = "rpcGetInclusionStates"
        /\ \A n \in 1..Len(scan.request) : Len(scan.request[n].trytes) = 49) =>
           /\ scan.outcome = "ok"
           /\ Len(scan.states) = Len(scan.request)
           /\ \A n \in 1..Len(scan.request) :
                scan.states[n] <=> StoredAsIncluded(scan.request[n].trytes)
    /\ scan.op = "transactionMetadata" =>
           /\ scan.response.Included <=> StoredAsIncluded(scan.txHash)
           /\ scan.response.ReferencedByMilestoneIndex # 0 =>
                /\ Has(tangle, StorePrefixTransactionMetadata, scan.txHash)
                /\ HasBit(Get(tangle, StorePrefixTransactionMetadata, scan.txHash)[1], 1)
           /\ scan.response.MilestoneIndex # 0 =>
                /\ Has(tangle, StorePrefixTransactionMetadata, scan.txHash)
                /\ HasBit(Get(tangle, StorePrefixTransactionMetadata, scan.txHash)[1], 6)

\* The states of a confirmed conflicting transaction, a confirmed one and an
\* unknown one were asked for, on a store where transaction 2 is unconfirmed
\* with a non-zero stored confirmation index.
C37_Witness ==
    /\ scan.op = "rpcGetInclusionStates"
    /\ scan.request = <<Trytes(TxHash(3)), Trytes(TxHash(1)), Trytes(TxHash(NumTx + 1))>>
    /\ scan.states = <<FALSE, TRUE, FALSE>>
    /\ HasBit(Get(tangle, StorePrefixTransactionMetadata, TxHash(3))[1], 1)
    /\ HasBit(Get(tangle, StorePrefixTransactionMetadata, TxHash(3))[1], 2)
    /\ Has(tangle, StorePrefixTransactionMetadata, TxHash(2))
    /\ ~HasBit(Get(tangle, StorePrefixTransactionMetadata, TxHash(2))[1], 1)
    /\ Uint32(SubSeq(Get(tangle, StorePrefixTransactionMetadata, TxHash(2)), 2, 5)) # 0

\* Both initializers can succeed on the store: the ledger index is stored and
\* the milestone bundle of that index is found.
InitializersSucceed ==
    /\ Has(tangle, StorePrefixLedgerState, ledgerMilestoneIndexKey)
    /\ ~MilestoneBundleOrNil(tangle, milestoneIndexFromBytes(
            Get(tangle, StorePrefixLedgerState, ledgerMilestoneIndexKey))).nil

\* C32: every caller that has entered one of the four operations eventually
\* leaves it, whatever the interleaving and the nesting of the initializers;
\* it leaves by returning, no caller panicking, when the initializers find what
\* they read.
C32_EveryCallEnds ==
    /\ \A p \in Callers : (stack[p] # <<>>) ~> (stack[p] = <<>>)
    /\ [](InitializersSucceed => panicking = {})

\* A caller inside the nested initializers holds the mutexes of the sync state
\* and of the latest bundle while another caller waits for the inner one.
C32_Witness ==
    \E p, q \in Callers :
        /\ p # q
        /\ once["sync"].holder = p
        /\ once["bundle"].holder = p
        /\ stack[q] # <<>>
        /\ Top(q).fn = "LatestSolidMilestoneBundle"
        /\ Top(q).pc = "lock"

====
